---- MODULE Spec2Model ----
(***************************************************************************)
(* Sprint aggregation of dev-board-v2: the per-issue loop body of          *)
(* getAllProjectSprints (src/unnamed/part_001, identical classifier blocks *)
(* in src/src/index.ts).  One sprint is aggregated issue by issue; every   *)
(* issue runs the spillover block, the shipper block and, when Done, the   *)
(* reviewer and starter blocks.  Per-person maps are JavaScript objects:   *)
(* they are modelled as sequences of entries in insertion order.           *)
(***************************************************************************)
EXTENDS Naturals, Integers, Sequences, FiniteSets, TLC

VARIABLES
    sprint,           \* the sprint being aggregated (JiraSprint)
    idx,              \* number of issues of the sprint processed so far
    issue,            \* the issue object of the current iteration, as it is in memory
    ingested,         \* the same issue as the fetch delivered it
    completedIssues,  \* let completedIssues
    completionStats,  \* const completionStats: IssueCompletionStats
    reviewerStats,    \* const reviewerStats: ReviewerStats
    shipperStats,     \* const shipperStats: ShipperStats
    spilloverStats,   \* const spilloverStats: SpilloverStats
    sprintSummaries,  \* const sprintSummaries: SprintSummary[]
    pc,               \* position in the sprint loop
    timeLogged,       \* const timeLogged: person -> seconds, of the sprint
    noEstimateResponse, \* the issues Jira answered to the third query of the sprint
    missingEstimates, \* the array getSprintIssues returns as noEstimateIssues,
                      \* which const missingEstimates names as well
    boards,           \* boards.values, as jira.getAllBoards answers
    boardSprints,     \* sprints.values, as jira.getAllSprints answers
    sprintNumber,     \* the argument of getAllProjectSprints, "" when absent
    filteredSprints,  \* let filteredSprints
    sidx,             \* position of sprint in filteredSprints
    query,            \* the query of getSprintIssues in flight, 0 when none
    fetchLog,         \* the searchJira calls issued so far
    thrown,           \* the error thrown where the failure arose, "" when none
    mainError,        \* the error main's catch received, "" when none
    exitCode,         \* -1 while the process runs
    totals,           \* totalStats, totalReviewerStats, totalShipperStats, totalSpilloverStats
    rows,             \* the rows of the Sprint Summary Table, the TOTAL row last
    printed,          \* the headings of the tables printed so far
    leaderboards,     \* the calls of getTopPerformers, in printing order
    returned,         \* what getAllProjectSprints returned to main
    html,             \* generateHtmlReport has written the report
    fetchedIssues     \* where LoopBodyKeeping runs the loop: the array issues of
                      \* each sprint fetched so far, as far as the loop has gone

sprintVars == <<sprint, idx, issue, ingested, completedIssues, completionStats,
                reviewerStats, shipperStats, spilloverStats, sprintSummaries, pc,
                timeLogged,
                noEstimateResponse, missingEstimates>>

runVars == <<boards, boardSprints, sprintNumber, filteredSprints, sidx, query,
             fetchLog, thrown, mainError, exitCode, totals, rows, printed,
             leaderboards, returned, html>>

vars == <<sprintVars, runVars, fetchedIssues>>

----------------------------------------------------------------------------
(* Bounds of the model *)

\* issues per sprint
MaxIssues == 2
\* change events per issue
MaxEvents == 2
\* field changes per issue history (all events together)
MaxChanges == 2

----------------------------------------------------------------------------
(* Inputs *)

Persons == {"Alice", "Bob"}

\* timestamps are counted in days
Times == {29, 30}

Sprints == {[id |-> 1, name |-> "Sprint 1", startDate |-> 30, endDate |-> 44]}

IssueStatuses == {"In Progress", "UAT Ready", "Done"}

FC(f, from, to) == [field |-> f, fromString |-> from, toString |-> to]

\* the field changes a history is built from: every branch of the three
\* classifiers, and a change of another field carrying status names
FieldChanges ==
    { FC("status", "To Do", "In Progress"),
      FC("status", "To Do", "Testing"),
      FC("status", "Testing", "In Progress"),
      FC("status", "Testing", "UAT Ready"),
      FC("status", "PR Ready", "Testing"),
      FC("status", "PR Ready", "In Progress"),
      FC("assignee", "To Do", "In Progress") }

SeqsUpTo(S, n) == UNION { [1..k -> S] : k \in 0..n }

\* JiraChangelog
ChangeEvents ==
    [author : Persons, created : Times, items : SeqsUpTo(FieldChanges, MaxChanges)]

RECURSIVE SumShape(_)
SumShape(c) == IF c = <<>> THEN 0 ELSE Head(c) + SumShape(Tail(c))

\* the number of field changes of each event of a history
Shapes ==
    { c \in SeqsUpTo(0..MaxChanges, MaxEvents) : SumShape(c) <= MaxChanges }

\* issue.changelog.histories, in any order of the timestamps
Histories ==
    UNION { { h \in [1..Len(c) -> ChangeEvents] :
                \A i \in 1..Len(c) : Len(h[i].items) = c[i] } : c \in Shapes }

IssueKey(n) == IF n = 1 THEN "K1" ELSE IF n = 2 THEN "K2" ELSE "K3"

\* JiraIssue: changelog is optional (changelog?: {histories})
IssuesWithKey(k) ==
    { [key |-> k, status |-> s, assignee |-> "",
       timeoriginalestimate |-> 3600, hasChangelog |-> TRUE, histories |-> h,
       worklogs |-> <<>>] :
        s \in IssueStatuses, h \in Histories }
    \cup
    { [key |-> k, status |-> s, assignee |-> "",
       timeoriginalestimate |-> 3600, hasChangelog |-> FALSE, histories |-> <<>>,
       worklogs |-> <<>>] :
        s \in IssueStatuses }

NoIssue == [key |-> "", status |-> "", assignee |-> "",
            timeoriginalestimate |-> 3600, hasChangelog |-> FALSE, histories |-> <<>>,
            worklogs |-> <<>>]

----------------------------------------------------------------------------
(* Array.prototype.sort with the comparator created(a) - created(b):       *)
(* a stable sort, ascending by timestamp.                                  *)

RECURSIVE InsertEvent(_, _)
InsertEvent(e, s) ==
    IF s = <<>> THEN <<e>>
    ELSE IF e.created - Head(s).created < 0 THEN <<e>> \o s
    ELSE <<Head(s)>> \o InsertEvent(e, Tail(s))

\* SortHistories that leaves the events as the fetch delivered them
SortHistoriesNone(h) == h

\* SortHistories that puts the events in the reverse of the order it finds
SortHistoriesReversing(h) == [k \in 1..Len(h) |-> h[Len(h) + 1 - k]]

RECURSIVE SortHistories(_)
SortHistories(h) ==
    IF h = <<>> THEN <<>>
    ELSE InsertEvent(h[Len(h)], SortHistories(SubSeq(h, 1, Len(h) - 1)))

\* issue.changelog.histories.sort(...) sorts the array of the issue itself
SortInPlace(iss) == [iss EXCEPT !.histories = SortHistories(@)]

----------------------------------------------------------------------------
(* Per-person maps: objects keyed by display name, in insertion order *)

Unknown == "Unknown"

HasKey(m, name) == \E i \in 1..Len(m) : m[i].name = name

IndexOf(m, name) == CHOOSE i \in 1..Len(m) : m[i].name = name

\* m[name] = m[name] || dflt
GetOrInsert(m, name, dflt) ==
    IF HasKey(m, name) THEN m ELSE Append(m, [dflt EXCEPT !.name = name])

----------------------------------------------------------------------------
(* Spillover block: who first moved the issue to In Progress, and when *)

\* first pass, lines 348-357
RECURSIVE SpillToInProgress(_, _, _)
SpillToInProgress(h, i, j) ==
    IF i > Len(h) THEN [starter |-> "", startDate |-> 0]
    ELSE IF j > Len(h[i].items) THEN SpillToInProgress(h, i + 1, 1)
    ELSE IF h[i].items[j].field = "status" /\ h[i].items[j].toString = "In Progress"
         THEN [starter |-> h[i].author, startDate |-> h[i].created]
    ELSE SpillToInProgress(h, i, j + 1)

\* second pass, lines 360-371
RECURSIVE SpillFromToDo(_, _, _)
SpillFromToDo(h, i, j) ==
    IF i > Len(h) THEN [starter |-> "", startDate |-> 0]
    ELSE IF j > Len(h[i].items) THEN SpillFromToDo(h, i + 1, 1)
    ELSE IF h[i].items[j].field = "status" /\ h[i].items[j].fromString = "To Do"
         THEN [starter |-> h[i].author, startDate |-> h[i].created]
    ELSE SpillFromToDo(h, i, j + 1)

\* SpilloverStart that looks for a move out of "To Do" before a move to "In Progress"
SpilloverStartFromToDoFirst(sortedHistory) ==
    LET first == SpillFromToDo(sortedHistory, 1, 1)
    IN  IF first.starter # "" THEN first ELSE SpillToInProgress(sortedHistory, 1, 1)

SpilloverStart(sortedHistory) ==
    LET first == SpillToInProgress(sortedHistory, 1, 1)
    IN  IF first.starter # "" THEN first ELSE SpillFromToDo(sortedHistory, 1, 1)

\* the length of one iteration in days: 1000 * 60 * 60 * 24 * 14 ms
SprintDays == 14

\* Math.ceil(a / b) for a >= 0, b > 0
Ceil(a, b) == (a + b - 1) \div b

\* SprintAge that counts the sprints fully elapsed: Math.floor for Math.ceil
SprintAgeElapsed(sprintStartDate, issueStartDate) ==
    (sprintStartDate - issueStartDate) \div SprintDays

SprintAge(sprintStartDate, issueStartDate) ==
    Ceil(sprintStartDate - issueStartDate, SprintDays)

\* getAgeGroupLabel with every tier ending one sprint early
getAgeGroupLabelStrict(sprintAge) ==
    IF sprintAge < 2 THEN "recent"
    ELSE IF sprintAge < 4 THEN "moderate"
    ELSE IF sprintAge < 6 THEN "old"
    ELSE "critical"

\* lines 272-277
getAgeGroupLabel(sprintAge) ==
    IF sprintAge <= 2 THEN "recent"
    ELSE IF sprintAge <= 4 THEN "moderate"
    ELSE IF sprintAge <= 6 THEN "old"
    ELSE "critical"

EmptySpillover ==
    [name |-> "", count |-> 0, totalSprintWeeks |-> 0, issues |-> <<>>,
     ageGroups |-> [recent |-> <<>>, moderate |-> <<>>, old |-> <<>>, critical |-> <<>>]]

\* RecordSpillover that lists the item but leaves count as it was
RecordSpilloverUncounted(stats, name, key, startDate, sp) ==
    LET m == GetOrInsert(stats, name, EmptySpillover)
        k == IndexOf(m, name)
        sprintAge == SprintAge(sp.startDate, startDate)
        ageGroup == getAgeGroupLabel(sprintAge)
    IN  [m EXCEPT ![k] =
            [@ EXCEPT !.totalSprintWeeks = @ + sprintAge * 2,
                      !.ageGroups = [@ EXCEPT ![ageGroup] = Append(@, <<key, sprintAge>>)],
                      !.issues = Append(@, [key |-> key, startDate |-> startDate,
                                            originalSprint |-> sp.name,
                                            sprintAge |-> sprintAge])]]

\* RecordSpillover that adds sprints, not weeks, to totalSprintWeeks
RecordSpilloverInSprints(stats, name, key, startDate, sp) ==
    LET m == GetOrInsert(stats, name, EmptySpillover)
        k == IndexOf(m, name)
        sprintAge == SprintAge(sp.startDate, startDate)
        ageGroup == getAgeGroupLabel(sprintAge)
    IN  [m EXCEPT ![k] =
            [@ EXCEPT !.count = @ + 1,
                      !.totalSprintWeeks = @ + sprintAge,
                      !.ageGroups = [@ EXCEPT ![ageGroup] = Append(@, <<key, sprintAge>>)],
                      !.issues = Append(@, [key |-> key, startDate |-> startDate,
                                            originalSprint |-> sp.name,
                                            sprintAge |-> sprintAge])]]

\* lines 379-402 and 411-434
RecordSpillover(stats, name, key, startDate, sp) ==
    LET m == GetOrInsert(stats, name, EmptySpillover)
        k == IndexOf(m, name)
        sprintAge == SprintAge(sp.startDate, startDate)
        ageGroup == getAgeGroupLabel(sprintAge)
    IN  [m EXCEPT ![k] =
            [@ EXCEPT !.count = @ + 1,
                      !.totalSprintWeeks = @ + sprintAge * 2,
                      !.ageGroups = [@ EXCEPT ![ageGroup] = Append(@, <<key, sprintAge>>)],
                      !.issues = Append(@, [key |-> key, startDate |-> startDate,
                                            originalSprint |-> sp.name,
                                            sprintAge |-> sprintAge])]]

\* SpilloverBlock that also records an issue started exactly at the sprint start
SpilloverBlockAtOrBefore(stats, iss, sp) ==
    IF iss.status = "Done" \/ ~iss.hasChangelog THEN stats
    ELSE LET s == SpilloverStart(iss.histories)
         IN  IF s.starter # ""
             THEN IF s.startDate <= sp.startDate
                  THEN RecordSpillover(stats, s.starter, iss.key, s.startDate, sp)
                  ELSE stats
             ELSE IF Len(iss.histories) > 0
                  THEN IF iss.histories[1].created < sp.startDate
                       THEN RecordSpillover(stats, Unknown, iss.key,
                                            iss.histories[1].created, sp)
                       ELSE stats
                  ELSE stats

\* lines 336-438, on the issue whose histories this block has already sorted
SpilloverBlock(stats, iss, sp) ==
    IF iss.status = "Done" \/ ~iss.hasChangelog THEN stats
    ELSE LET s == SpilloverStart(iss.histories)
         IN  IF s.starter # ""
             THEN IF s.startDate < sp.startDate
                  THEN RecordSpillover(stats, s.starter, iss.key, s.startDate, sp)
                  ELSE stats
             ELSE IF Len(iss.histories) > 0
                  THEN IF iss.histories[1].created < sp.startDate
                       THEN RecordSpillover(stats, Unknown, iss.key,
                                            iss.histories[1].created, sp)
                       ELSE stats
                  ELSE stats

----------------------------------------------------------------------------
(* Shipper block, lines 440-492 *)

\* the inner loop over history.items, lines 454-468
RECURSIVE ShipperItems(_, _, _)
ShipperItems(ev, j, st) ==
    IF j > Len(ev.items) THEN st
    ELSE LET item == ev.items[j]
             st1 == IF item.field = "status" /\ item.fromString = "Testing"
                       /\ st.firstMoverFromTesting = ""
                    THEN [st EXCEPT !.firstMoverFromTesting = ev.author]
                    ELSE st
         IN  IF item.field = "status" /\ item.fromString = "Testing"
                /\ item.toString = "UAT Ready" /\ st1.shipper = ""
             THEN [st1 EXCEPT !.shipper = ev.author, !.movedDirectlyToUATReady = TRUE]
             ELSE ShipperItems(ev, j + 1, st1)

\* the outer loop over sortedHistory, lines 453-470
RECURSIVE ShipperScan(_, _, _)
ShipperScan(h, i, st) ==
    IF i > Len(h) THEN st
    ELSE LET st1 == ShipperItems(h[i], 1, st)
         IN  IF st1.shipper # "" THEN st1 ELSE ShipperScan(h, i + 1, st1)

\* FindShipper letting the first move out of "Testing" win over a later direct one
FindShipperFirstMover(sortedHistory) ==
    LET st == ShipperScan(sortedHistory, 1,
                  [shipper |-> "", movedDirectlyToUATReady |-> FALSE,
                   firstMoverFromTesting |-> ""])
    IN  IF st.firstMoverFromTesting # ""
        THEN [st EXCEPT !.shipper = st.firstMoverFromTesting]
        ELSE st

\* lines 447-476
FindShipper(sortedHistory) ==
    LET st == ShipperScan(sortedHistory, 1,
                  [shipper |-> "", movedDirectlyToUATReady |-> FALSE,
                   firstMoverFromTesting |-> ""])
    IN  IF st.shipper = "" /\ st.firstMoverFromTesting # ""
        THEN [st EXCEPT !.shipper = st.firstMoverFromTesting,
                        !.movedDirectlyToUATReady = FALSE]
        ELSE st

EmptyShipper == [name |-> "", shipped |-> 0, shippedIssues |-> <<>>]

RecordShipper(stats, name, issueKey) ==
    LET m == GetOrInsert(stats, name, EmptyShipper)
        k == IndexOf(m, name)
    IN  [m EXCEPT ![k] = [@ EXCEPT !.shipped = @ + 1,
                                   !.shippedIssues = Append(@, issueKey)]]

\* lines 478-491
ShipperBlock(stats, iss) ==
    IF ~iss.hasChangelog THEN stats
    ELSE LET st == FindShipper(iss.histories)
         IN  IF st.shipper # ""
             THEN RecordShipper(stats, st.shipper,
                      IF st.movedDirectlyToUATReady THEN iss.key ELSE iss.key \o "*")
             ELSE IF iss.status = "UAT Ready" \/ iss.status = "Done"
                  THEN RecordShipper(stats, Unknown, iss.key \o "*")
                  ELSE stats

----------------------------------------------------------------------------
(* Reviewer block, lines 497-549 *)

\* the inner loop over history.items, lines 511-525
RECURSIVE ReviewerItems(_, _, _)
ReviewerItems(ev, j, st) ==
    IF j > Len(ev.items) THEN st
    ELSE LET item == ev.items[j]
             st1 == IF item.field = "status" /\ item.fromString = "PR Ready"
                       /\ st.firstMoverFromPRReady = ""
                    THEN [st EXCEPT !.firstMoverFromPRReady = ev.author]
                    ELSE st
         IN  IF item.field = "status" /\ item.fromString = "PR Ready"
                /\ item.toString = "Testing" /\ st1.reviewer = ""
             THEN [st1 EXCEPT !.reviewer = ev.author, !.movedDirectlyToTesting = TRUE]
             ELSE ReviewerItems(ev, j + 1, st1)

\* the outer loop over sortedHistory, lines 510-527
RECURSIVE ReviewerScan(_, _, _)
ReviewerScan(h, i, st) ==
    IF i > Len(h) THEN st
    ELSE LET st1 == ReviewerItems(h[i], 1, st)
         IN  IF st1.reviewer # "" THEN st1 ELSE ReviewerScan(h, i + 1, st1)

\* FindReviewer letting the first move out of "PR Ready" win over a later direct one
FindReviewerFirstMover(sortedHistory) ==
    LET st == ReviewerScan(sortedHistory, 1,
                  [reviewer |-> "", movedDirectlyToTesting |-> FALSE,
                   firstMoverFromPRReady |-> ""])
    IN  IF st.firstMoverFromPRReady # ""
        THEN [st EXCEPT !.reviewer = st.firstMoverFromPRReady]
        ELSE st

\* lines 504-533
FindReviewer(sortedHistory) ==
    LET st == ReviewerScan(sortedHistory, 1,
                  [reviewer |-> "", movedDirectlyToTesting |-> FALSE,
                   firstMoverFromPRReady |-> ""])
    IN  IF st.reviewer = "" /\ st.firstMoverFromPRReady # ""
        THEN [st EXCEPT !.reviewer = st.firstMoverFromPRReady,
                        !.movedDirectlyToTesting = FALSE]
        ELSE st

EmptyReviewer == [name |-> "", reviewed |-> 0, reviewedIssues |-> <<>>]

\* RecordReviewer that enters the issue twice
RecordReviewerTwice(stats, name, issueKey) ==
    LET m == GetOrInsert(stats, name, EmptyReviewer)
        k == IndexOf(m, name)
    IN  [m EXCEPT ![k] = [@ EXCEPT !.reviewed = @ + 2,
                                   !.reviewedIssues = Append(Append(@, issueKey), issueKey)]]

RecordReviewer(stats, name, issueKey) ==
    LET m == GetOrInsert(stats, name, EmptyReviewer)
        k == IndexOf(m, name)
    IN  [m EXCEPT ![k] = [@ EXCEPT !.reviewed = @ + 1,
                                   !.reviewedIssues = Append(@, issueKey)]]

\* lines 494-549, the reviewer part of the Done block
ReviewerBlock(stats, iss) ==
    IF iss.status # "Done" \/ ~iss.hasChangelog THEN stats
    ELSE LET st == FindReviewer(iss.histories)
         IN  IF st.reviewer # ""
             THEN RecordReviewer(stats, st.reviewer,
                      IF st.movedDirectlyToTesting THEN iss.key ELSE iss.key \o "*")
             ELSE RecordReviewer(stats, Unknown, iss.key \o "*")

----------------------------------------------------------------------------
(* Starter block, lines 551-600 *)

\* StarterItems taking only a move from "To Do" as the move to "In Progress"
RECURSIVE StarterItemsFromToDoOnly(_, _, _)
StarterItemsFromToDoOnly(ev, j, st) ==
    IF j > Len(ev.items) THEN st
    ELSE LET item == ev.items[j]
         IN  IF item.field = "status" /\ item.toString = "In Progress"
                /\ item.fromString = "To Do" /\ st.starter = ""
             THEN [st EXCEPT !.starter = ev.author,
                             !.movedDirectlyToInProgress = TRUE]
             ELSE StarterItemsFromToDoOnly(ev, j + 1,
                      IF item.field = "status" /\ item.fromString = "To Do"
                         /\ st.firstMoverFromToDo = ""
                      THEN [st EXCEPT !.firstMoverFromToDo = ev.author]
                      ELSE st)

\* the inner loop over history.items, lines 564-574
RECURSIVE StarterItems(_, _, _)
StarterItems(ev, j, st) ==
    IF j > Len(ev.items) THEN st
    ELSE LET item == ev.items[j]
         IN  IF item.field = "status" /\ item.toString = "In Progress"
                /\ st.starter = ""
             THEN [st EXCEPT !.starter = ev.author,
                             !.movedDirectlyToInProgress = (item.fromString = "To Do")]
             ELSE StarterItems(ev, j + 1,
                      IF item.field = "status" /\ item.fromString = "To Do"
                         /\ st.firstMoverFromToDo = ""
                      THEN [st EXCEPT !.firstMoverFromToDo = ev.author]
                      ELSE st)

\* the outer loop over sortedHistory, lines 563-576
RECURSIVE StarterScan(_, _, _)
StarterScan(h, i, st) ==
    IF i > Len(h) THEN st
    ELSE LET st1 == StarterItems(h[i], 1, st)
         IN  IF st1.starter # "" THEN st1 ELSE StarterScan(h, i + 1, st1)

\* lines 553-582
FindStarter(sortedHistory) ==
    LET st == StarterScan(sortedHistory, 1,
                  [starter |-> "", movedDirectlyToInProgress |-> FALSE,
                   firstMoverFromToDo |-> ""])
    IN  IF st.starter = "" /\ st.firstMoverFromToDo # ""
        THEN [st EXCEPT !.starter = st.firstMoverFromToDo,
                        !.movedDirectlyToInProgress = FALSE]
        ELSE st

EmptyCompletion == [name |-> "", started |-> 0, completed |-> 0, completedIssues |-> <<>>]

\* RecordStarter that counts the issue as completed only
RecordStarterCompletedOnly(stats, name, issueKey) ==
    LET m == GetOrInsert(stats, name, EmptyCompletion)
        k == IndexOf(m, name)
    IN  [m EXCEPT ![k] = [@ EXCEPT !.completed = @ + 1,
                                   !.completedIssues = Append(@, issueKey)]]

RecordStarter(stats, name, issueKey) ==
    LET m == GetOrInsert(stats, name, EmptyCompletion)
        k == IndexOf(m, name)
    IN  [m EXCEPT ![k] = [@ EXCEPT !.started = @ + 1,
                                   !.completed = @ + 1,
                                   !.completedIssues = Append(@, issueKey)]]

\* StarterBlock run on every issue with a change history, whatever its status
StarterBlockAnyStatus(stats, iss) ==
    IF ~iss.hasChangelog THEN stats
    ELSE LET st == FindStarter(iss.histories)
         IN  IF st.starter # ""
             THEN RecordStarter(stats, st.starter,
                      IF st.movedDirectlyToInProgress THEN iss.key ELSE iss.key \o "*")
             ELSE RecordStarter(stats, Unknown, iss.key \o "*")

\* lines 551-600, the starter part of the Done block
StarterBlock(stats, iss) ==
    IF iss.status # "Done" \/ ~iss.hasChangelog THEN stats
    ELSE LET st == FindStarter(iss.histories)
         IN  IF st.starter # ""
             THEN RecordStarter(stats, st.starter,
                      IF st.movedDirectlyToInProgress THEN iss.key ELSE iss.key \o "*")
             ELSE RecordStarter(stats, Unknown, iss.key \o "*")

----------------------------------------------------------------------------
(* The issue object after each block that sorts its histories *)

\* AfterSpillover when the spillover block sorts a copy of the histories
AfterSpilloverOnCopy(iss) == iss

\* the issue object after each block that sorts its histories
AfterSpillover(iss) ==
    IF iss.status # "Done" /\ iss.hasChangelog THEN SortInPlace(iss) ELSE iss

AfterShipper(iss) ==
    IF iss.hasChangelog THEN SortInPlace(AfterSpillover(iss)) ELSE AfterSpillover(iss)

AfterDone(iss) ==
    IF iss.status = "Done" /\ iss.hasChangelog
    THEN SortInPlace(SortInPlace(AfterShipper(iss)))
    ELSE AfterShipper(iss)

----------------------------------------------------------------------------
(* Worklog block, lines 603-620 *)

\* SprintWorklogs with the end of the sprint excluded
RECURSIVE SprintWorklogsBeforeEnd(_, _)
SprintWorklogsBeforeEnd(worklogs, sp) ==
    IF worklogs = <<>> THEN <<>>
    ELSE IF Head(worklogs).started >= sp.startDate /\ Head(worklogs).started < sp.endDate
         THEN <<Head(worklogs)>> \o SprintWorklogsBeforeEnd(Tail(worklogs), sp)
         ELSE SprintWorklogsBeforeEnd(Tail(worklogs), sp)

\* lines 609-612: the entries started within [sprint.startDate, sprint.endDate]
RECURSIVE SprintWorklogs(_, _)
SprintWorklogs(worklogs, sp) ==
    IF worklogs = <<>> THEN <<>>
    ELSE IF Head(worklogs).started >= sp.startDate /\ Head(worklogs).started <= sp.endDate
         THEN <<Head(worklogs)>> \o SprintWorklogs(Tail(worklogs), sp)
         ELSE SprintWorklogs(Tail(worklogs), sp)

\* line 618: timeLogged[assignee] = (timeLogged[assignee] || 0) + timeSpentSeconds
AddTime(tl, name, seconds) ==
    LET m == GetOrInsert(tl, name, [name |-> "", seconds |-> 0])
    IN  [m EXCEPT ![IndexOf(m, name)] = [@ EXCEPT !.seconds = @ + seconds]]

\* lines 615-619
RECURSIVE SumWorklogs(_, _)
SumWorklogs(tl, worklogs) ==
    IF worklogs = <<>> THEN tl
    ELSE SumWorklogs(AddTime(tl, Head(worklogs).author, Head(worklogs).timeSpentSeconds),
                     Tail(worklogs))

\* WorklogBlock that passes over the issues that are Done
WorklogBlockUnfinished(tl, iss, sp) ==
    IF iss.status = "Done" THEN tl
    ELSE SumWorklogs(tl, SprintWorklogs(iss.worklogs, sp))

WorklogBlock(tl, iss, sp) == SumWorklogs(tl, SprintWorklogs(iss.worklogs, sp))

----------------------------------------------------------------------------
(* Issues without an original estimate, lines 195-211 and 322-334 *)

\* issue.fields.assignee ? issue.fields.assignee.displayName : null, the
\* absent assignee being "" and null being "null"
AssigneeName(iss) == IF iss.assignee # "" THEN iss.assignee ELSE "null"

\* lines 208-211: noEstimateIssues.issues.map(...), a new array
RECURSIVE NoEstimateIssues(_)
NoEstimateIssues(response) ==
    IF response = <<>> THEN <<>>
    ELSE <<[key |-> Head(response).key, assignee |-> AssigneeName(Head(response))]>>
           \o NoEstimateIssues(Tail(response))

\* lines 329-334: the push goes to the array of the fetch result, which
\* missingEstimates names; undefined, null and 0 are no estimate
EstimateBlock(missing, iss) ==
    IF iss.timeoriginalestimate = 0
    THEN Append(missing, [key |-> iss.key, assignee |-> AssigneeName(iss)])
    ELSE missing

----------------------------------------------------------------------------
(* The issue loop of one sprint *)

\* process.env.JIRA_PROJECT_KEY
ProjectKey == "DEV"

NoTotals == [completion |-> <<>>, reviewer |-> <<>>, shipper |-> <<>>,
             spillover |-> <<>>, totalSprintWeeks |-> 0]

NotReturned == [done |-> FALSE, value |-> <<>>]

\* the three searchJira calls of getSprintIssues, lines 182-200
QueriesOf(sp) == [q \in 1..3 |-> [sprint |-> sp.id, query |-> q]]

\* lines 316-325: the state of a sprint after its fetch, before its first
\* issue; response is what Jira answered to the third query
SprintInitWith(sp, response) ==
    /\ sprint = sp
    /\ idx = 0
    /\ issue = NoIssue
    /\ ingested = NoIssue
    /\ completedIssues = 0
    /\ completionStats = <<>>
    /\ reviewerStats = <<>>
    /\ shipperStats = <<>>
    /\ spilloverStats = <<>>
    /\ timeLogged = <<>>
    /\ noEstimateResponse = response
    /\ missingEstimates = NoEstimateIssues(response)
    /\ sprintSummaries = <<>>
    /\ pc = "loop"
    /\ boards = <<ProjectKey>>
    /\ boardSprints = <<sp>>
    /\ sprintNumber = ""
    /\ filteredSprints = <<sp>>
    /\ sidx = 1
    /\ query = 0
    /\ fetchLog = QueriesOf(sp)
    /\ thrown = ""
    /\ mainError = ""
    /\ exitCode = -1
    /\ totals = NoTotals
    /\ rows = <<>>
    /\ printed = <<>>
    /\ leaderboards = <<>>
    /\ returned = NotReturned
    /\ html = FALSE
    /\ fetchedIssues = <<>>

SprintInit(sp) == SprintInitWith(sp, <<>>)

Init == \E sp \in Sprints : SprintInit(sp)

\* lines 327-621: the body of the loop, for the next issue of the fetched list
ProcessIssue(iss) ==
    /\ ingested' = iss
    /\ issue' = AfterDone(iss)
    /\ spilloverStats' = SpilloverBlock(spilloverStats, AfterSpillover(iss), sprint)
    /\ shipperStats' = ShipperBlock(shipperStats, AfterShipper(iss))
    /\ completedIssues' = IF iss.status = "Done" THEN completedIssues + 1
                          ELSE completedIssues
    /\ reviewerStats' = ReviewerBlock(reviewerStats, AfterDone(iss))
    /\ completionStats' = StarterBlock(completionStats, AfterDone(iss))
    /\ timeLogged' = WorklogBlock(timeLogged, iss, sprint)
    /\ missingEstimates' = EstimateBlock(missingEstimates, iss)
    /\ idx' = idx + 1
    /\ pc' = "body"
    /\ UNCHANGED <<sprint, sprintSummaries, noEstimateResponse>>
    /\ UNCHANGED runVars

\* line 327: the loop moves on, the variable issue leaves its scope
NextIssue ==
    /\ pc = "body"
    /\ issue' = NoIssue
    /\ ingested' = NoIssue
    /\ pc' = "loop"
    /\ UNCHANGED <<sprint, idx, completedIssues, completionStats, reviewerStats,
                   shipperStats, spilloverStats, sprintSummaries, timeLogged,
                   noEstimateResponse, missingEstimates>>
    /\ UNCHANGED runVars
    /\ UNCHANGED fetchedIssues

\* lines 623-637; total, the count Jira reports for the first query, is the
\* number of issues delivered, a sprint having fewer than maxResults issues
Summary ==
    [id |-> sprint.id, name |-> sprint.name,
     startDate |-> sprint.startDate, endDate |-> sprint.endDate,
     totalIssues |-> idx,
     completedIssues |-> completedIssues,
     timeLogged |-> timeLogged,
     completionStats |-> completionStats,
     reviewerStats |-> reviewerStats,
     shipperStats |-> shipperStats,
     spilloverStats |-> spilloverStats,
     missingEstimates |-> missingEstimates]

\* PushSummary that puts the summary of the latest sprint first
PushSummaryFirst(summaries, summary) == <<summary>> \o summaries

\* line 639: sprintSummaries.push(summary)
PushSummary(summaries, summary) == Append(summaries, summary)

\* lines 623-639: the list of issues is exhausted, the summary is pushed
FinishSprint ==
    /\ pc = "loop"
    /\ sprintSummaries' = PushSummary(sprintSummaries, Summary)
    /\ pc' = "sprintLoop"
    /\ UNCHANGED <<sprint, idx, issue, ingested, completedIssues, completionStats,
                   reviewerStats, shipperStats, spilloverStats, timeLogged,
                   noEstimateResponse, missingEstimates>>
    /\ UNCHANGED runVars
    /\ UNCHANGED fetchedIssues

\* line 327: for (const issue of issues), over the issues the fetch delivered
LoopBodyFrom(delivered) ==
    /\ pc = "loop"
    /\ idx < MaxIssues
    /\ \E iss \in delivered : ProcessIssue(iss)
    /\ UNCHANGED fetchedIssues

\* lines 315 and 327: the same loop, the issues the fetch of the sprint
\* delivered being kept as the loop reaches them
LoopBodyKeeping(delivered) ==
    /\ pc = "loop"
    /\ idx < MaxIssues
    /\ \E iss \in delivered :
          /\ ProcessIssue(iss)
          /\ fetchedIssues' = [fetchedIssues EXCEPT ![sidx] = Append(@, iss)]

\* line 327: for (const issue of issues), any issue the fetch can deliver
LoopBody == LoopBodyFrom(IssuesWithKey(IssueKey(idx + 1)))

Next ==
    \/ LoopBody
    \/ NextIssue
    \/ FinishSprint

Spec == Init /\ [][Next]_vars

----------------------------------------------------------------------------
(* Object.entries: the own properties of an object, those whose name is an
   array index first, in ascending numeric order, then the others in the
   order of their creation *)

IsDigit(c) == \E d \in 0..9 : SubSeq("0123456789", d + 1, d + 1) = c

DigitOf(c) == CHOOSE d \in 0..9 : SubSeq("0123456789", d + 1, d + 1) = c

RECURSIVE ToNumber(_)
ToNumber(s) ==
    IF Len(s) = 0 THEN 0
    ELSE ToNumber(SubSeq(s, 1, Len(s) - 1)) * 10 + DigitOf(SubSeq(s, Len(s), Len(s)))

\* a canonical numeric string; names of ten digits and more are not drawn
IsArrayIndex(name) ==
    /\ Len(name) \in 1..9
    /\ \A i \in 1..Len(name) : IsDigit(SubSeq(name, i, i))
    /\ (Len(name) > 1 => SubSeq(name, 1, 1) # "0")

RECURSIVE InsertIndex(_, _)
InsertIndex(e, s) ==
    IF s = <<>> THEN <<e>>
    ELSE IF ToNumber(e.name) < ToNumber(Head(s).name) THEN <<e>> \o s
    ELSE <<Head(s)>> \o InsertIndex(e, Tail(s))

RECURSIVE IndexEntries(_)
IndexEntries(m) ==
    IF m = <<>> THEN <<>>
    ELSE IF IsArrayIndex(m[Len(m)].name)
         THEN InsertIndex(m[Len(m)], IndexEntries(SubSeq(m, 1, Len(m) - 1)))
         ELSE IndexEntries(SubSeq(m, 1, Len(m) - 1))

RECURSIVE NamedEntries(_)
NamedEntries(m) ==
    IF m = <<>> THEN <<>>
    ELSE IF IsArrayIndex(Head(m).name) THEN NamedEntries(Tail(m))
         ELSE <<Head(m)>> \o NamedEntries(Tail(m))

ObjectEntries(m) == IndexEntries(m) \o NamedEntries(m)

----------------------------------------------------------------------------
(* Rendering, lines 642-1153: the cross-sprint totals *)

\* lines 775-780, for the entries of one sprint in their order
RECURSIVE AddCompletion(_, _)
AddCompletion(total, stats) ==
    IF stats = <<>> THEN total
    ELSE LET e == Head(stats)
             m == GetOrInsert(total, e.name, EmptyCompletion)
         IN  AddCompletion(
                 [m EXCEPT ![IndexOf(m, e.name)] =
                     [@ EXCEPT !.started = @ + e.started,
                               !.completed = @ + e.completed,
                               !.completedIssues = @ \o e.completedIssues]],
                 Tail(stats))

\* lines 773-782
RECURSIVE totalStats(_)
totalStats(summaries) ==
    IF summaries = <<>> THEN <<>>
    ELSE AddCompletion(totalStats(SubSeq(summaries, 1, Len(summaries) - 1)),
                       ObjectEntries(summaries[Len(summaries)].completionStats))

\* lines 838-842
RECURSIVE AddReviewer(_, _)
AddReviewer(total, stats) ==
    IF stats = <<>> THEN total
    ELSE LET e == Head(stats)
             m == GetOrInsert(total, e.name, EmptyReviewer)
         IN  AddReviewer(
                 [m EXCEPT ![IndexOf(m, e.name)] =
                     [@ EXCEPT !.reviewed = @ + e.reviewed,
                               !.reviewedIssues = @ \o e.reviewedIssues]],
                 Tail(stats))

\* lines 836-843
RECURSIVE totalReviewerStats(_)
totalReviewerStats(summaries) ==
    IF summaries = <<>> THEN <<>>
    ELSE AddReviewer(totalReviewerStats(SubSeq(summaries, 1, Len(summaries) - 1)),
                     ObjectEntries(summaries[Len(summaries)].reviewerStats))

\* lines 898-902
RECURSIVE AddShipper(_, _)
AddShipper(total, stats) ==
    IF stats = <<>> THEN total
    ELSE LET e == Head(stats)
             m == GetOrInsert(total, e.name, EmptyShipper)
         IN  AddShipper(
                 [m EXCEPT ![IndexOf(m, e.name)] =
                     [@ EXCEPT !.shipped = @ + e.shipped,
                               !.shippedIssues = @ \o e.shippedIssues]],
                 Tail(stats))

\* lines 896-903
RECURSIVE totalShipperStats(_)
totalShipperStats(summaries) ==
    IF summaries = <<>> THEN <<>>
    ELSE AddShipper(totalShipperStats(SubSeq(summaries, 1, Len(summaries) - 1)),
                    ObjectEntries(summaries[Len(summaries)].shipperStats))

\* AddSpillover that keeps the tier lists of the first sprint only
RECURSIVE AddSpilloverFirstTiers(_, _)
AddSpilloverFirstTiers(total, stats) ==
    IF stats = <<>> THEN total
    ELSE LET e == Head(stats)
             m == GetOrInsert(total, e.name, EmptySpillover)
         IN  AddSpilloverFirstTiers(
                 [m EXCEPT ![IndexOf(m, e.name)] =
                     [@ EXCEPT !.count = @ + e.count,
                               !.totalSprintWeeks = @ + e.totalSprintWeeks,
                               !.issues = @ \o e.issues,
                               !.ageGroups = IF HasKey(total, e.name) THEN @
                                             ELSE e.ageGroups]],
                 Tail(stats))

\* lines 976-992
RECURSIVE AddSpillover(_, _)
AddSpillover(total, stats) ==
    IF stats = <<>> THEN total
    ELSE LET e == Head(stats)
             m == GetOrInsert(total, e.name, EmptySpillover)
         IN  AddSpillover(
                 [m EXCEPT ![IndexOf(m, e.name)] =
                     [@ EXCEPT !.count = @ + e.count,
                               !.totalSprintWeeks = @ + e.totalSprintWeeks,
                               !.issues = @ \o e.issues,
                               !.ageGroups =
                                   [group \in DOMAIN @ |-> @[group] \o e.ageGroups[group]]]],
                 Tail(stats))

\* lines 971-996
RECURSIVE totalSpilloverStats(_)
totalSpilloverStats(summaries) ==
    IF summaries = <<>> THEN <<>>
    ELSE AddSpillover(totalSpilloverStats(SubSeq(summaries, 1, Len(summaries) - 1)),
                      ObjectEntries(summaries[Len(summaries)].spilloverStats))

\* line 994, over the entries of one sprint
RECURSIVE AddSprintWeeks(_, _)
AddSprintWeeks(total, stats) ==
    IF stats = <<>> THEN total
    ELSE AddSprintWeeks(total + Head(stats).totalSprintWeeks, Tail(stats))

\* lines 972 and 994
RECURSIVE totalSprintWeeks(_)
totalSprintWeeks(summaries) ==
    IF summaries = <<>> THEN 0
    ELSE AddSprintWeeks(totalSprintWeeks(SubSeq(summaries, 1, Len(summaries) - 1)),
                        summaries[Len(summaries)].spilloverStats)

----------------------------------------------------------------------------
(* Rendering: the leaderboards, lines 1033-1150.  A score is a number that
   need not be whole: hours are seconds over 3600.  Scores are kept as
   fractions, so that no hour is rounded. *)

Whole(n) == [num |-> n, den |-> 1]

\* lines 259-261
convertJiraTimeToHours(timeSpentSeconds) == [num |-> timeSpentSeconds, den |-> 3600]

\* a + b
Plus(a, b) ==
    IF a.den = b.den THEN [num |-> a.num + b.num, den |-> a.den]
    ELSE [num |-> a.num * b.den + b.num * a.den, den |-> a.den * b.den]

\* a - b < 0
Less(a, b) == a.num * b.den < b.num * a.den

\* InsertEntry that puts an entry before the entries of equal score
RECURSIVE InsertEntryBeforeTies(_, _)
InsertEntryBeforeTies(e, s) ==
    IF s = <<>> THEN <<e>>
    ELSE IF ~Less(e.score, Head(s).score) THEN <<e>> \o s
    ELSE <<Head(s)>> \o InsertEntryBeforeTies(e, Tail(s))

\* the comparator (a, b) => b[1] - a[1] places e before the first entry of a
\* strictly lower score
RECURSIVE InsertEntry(_, _)
InsertEntry(e, s) ==
    IF s = <<>> THEN <<e>>
    ELSE IF Less(Head(s).score, e.score) THEN <<e>> \o s
    ELSE <<Head(s)>> \o InsertEntry(e, Tail(s))

\* line 1039: Array.prototype.sort is stable
RECURSIVE SortByScore(_)
SortByScore(entries) ==
    IF entries = <<>> THEN <<>>
    ELSE InsertEntry(entries[Len(entries)],
                     SortByScore(SubSeq(entries, 1, Len(entries) - 1)))

\* line 1037: limit: number = 3
DefaultLimit == 3

\* lines 1037-1041; data holds the entries of the object in insertion order
getTopPerformers(data, limit) ==
    LET sorted == SortByScore(ObjectEntries(data))
    IN  SubSeq(sorted, 1, IF limit < Len(sorted) THEN limit ELSE Len(sorted))

\* lines 1049-1052
HoursLogged(tl) ==
    [n \in 1..Len(tl) |->
        [name |-> ObjectEntries(tl)[n].name,
         score |-> convertJiraTimeToHours(ObjectEntries(tl)[n].seconds)]]

\* lines 1060-1063, 1071-1074, 1082-1085
Scores(stats, field) ==
    [n \in 1..Len(stats) |->
        [name |-> ObjectEntries(stats)[n].name,
         score |-> Whole(ObjectEntries(stats)[n][field])]]

\* lines 1101, 1115, 1129, 1143: total[person] = (total[person] || 0) + score
RECURSIVE AddScores(_, _)
AddScores(total, data) ==
    IF data = <<>> THEN total
    ELSE LET e == Head(data)
             m == GetOrInsert(total, e.name, [name |-> "", score |-> Whole(0)])
         IN  AddScores([m EXCEPT ![IndexOf(m, e.name)] =
                           [@ EXCEPT !.score = Plus(@, e.score)]],
                       Tail(data))

\* lines 1099-1103 and alike: sprintSummaries.forEach over the maps of a metric
RECURSIVE SumScores(_)
SumScores(datas) ==
    IF datas = <<>> THEN <<>>
    ELSE AddScores(SumScores(SubSeq(datas, 1, Len(datas) - 1)),
                   ObjectEntries(datas[Len(datas)]))

Leaderboard(scope, metric, data) ==
    [scope |-> scope, metric |-> metric, data |-> data,
     top |-> getTopPerformers(data, DefaultLimit)]

\* lines 1045-1091, one sprint
SprintLeaderboards(s) ==
    << Leaderboard(s.name, "hours", HoursLogged(s.timeLogged)),
       Leaderboard(s.name, "completed", Scores(s.completionStats, "completed")),
       Leaderboard(s.name, "reviewed", Scores(s.reviewerStats, "reviewed")),
       Leaderboard(s.name, "shipped", Scores(s.shipperStats, "shipped")) >>

\* lines 1044-1092
RECURSIVE PerSprintLeaderboards(_)
PerSprintLeaderboards(summaries) ==
    IF summaries = <<>> THEN <<>>
    ELSE SprintLeaderboards(Head(summaries)) \o PerSprintLeaderboards(Tail(summaries))

\* lines 1094-1150
OverallLeaderboards(summaries) ==
    << Leaderboard("Overall", "hours",
           SumScores([k \in 1..Len(summaries) |-> HoursLogged(summaries[k].timeLogged)])),
       Leaderboard("Overall", "completed",
           SumScores([k \in 1..Len(summaries) |->
                         Scores(summaries[k].completionStats, "completed")])),
       Leaderboard("Overall", "reviewed",
           SumScores([k \in 1..Len(summaries) |->
                         Scores(summaries[k].reviewerStats, "reviewed")])),
       Leaderboard("Overall", "shipped",
           SumScores([k \in 1..Len(summaries) |->
                         Scores(summaries[k].shipperStats, "shipped")])) >>

\* (completed / total) * 100 in floating point: 0 / 0 is NaN and n / 0 is
\* Infinity; any other quotient is kept as a fraction
Percentage(completed, total) ==
    IF total = 0
    THEN IF completed = 0 THEN [kind |-> "NaN", num |-> 0, den |-> 0]
         ELSE [kind |-> "Infinity", num |-> 0, den |-> 0]
    ELSE [kind |-> "number", num |-> completed * 100, den |-> total]

\* lines 681-691: the row of a sprint
SprintRow(s) ==
    [name |-> s.name, total |-> s.totalIssues, done |-> s.completedIssues,
     completionPercentage |-> Percentage(s.completedIssues, s.totalIssues)]

\* lines 708-710: reduce((sum, s) => sum + s[field], 0)
RECURSIVE Reduce(_, _)
Reduce(summaries, field) ==
    IF summaries = <<>> THEN 0
    ELSE Reduce(SubSeq(summaries, 1, Len(summaries) - 1), field)
           + summaries[Len(summaries)][field]

\* lines 708-720: the TOTAL row
TotalRow(summaries) ==
    [name |-> "TOTAL",
     total |-> Reduce(summaries, "totalIssues"),
     done |-> Reduce(summaries, "completedIssues"),
     completionPercentage |-> Percentage(Reduce(summaries, "completedIssues"),
                                         Reduce(summaries, "totalIssues"))]

\* lines 680-731
SummaryTable(summaries) ==
    [k \in 1..Len(summaries) |-> SprintRow(summaries[k])] \o <<TotalRow(summaries)>>

\* lines 652, 736, 800, 860, 920, 1034
Headings ==
    << "Sprint Summary Table:", "Issue Completion Table:", "Reviewers Table:",
       "Shippers Table:", "Spillover Issues Table:", "Leaderboard" >>

\* lines 313 and 642-1153: the sprints are exhausted; the tables, the totals
\* and the leaderboards are printed and the summaries returned to main
Render ==
    /\ pc = "sprintLoop"
    /\ sidx = Len(filteredSprints)
    /\ totals' = [completion |-> totalStats(sprintSummaries),
                  reviewer |-> totalReviewerStats(sprintSummaries),
                  shipper |-> totalShipperStats(sprintSummaries),
                  spillover |-> totalSpilloverStats(sprintSummaries),
                  totalSprintWeeks |-> totalSprintWeeks(sprintSummaries)]
    /\ leaderboards' = PerSprintLeaderboards(sprintSummaries)
                         \o OverallLeaderboards(sprintSummaries)
    /\ rows' = SummaryTable(sprintSummaries)
    /\ printed' = printed \o Headings
    /\ returned' = [done |-> TRUE, value |-> sprintSummaries]
    /\ pc' = "main"
    /\ UNCHANGED <<sprint, idx, issue, ingested, completedIssues, completionStats,
                   reviewerStats, shipperStats, spilloverStats, sprintSummaries,
                   timeLogged,
                   noEstimateResponse, missingEstimates>>
    /\ UNCHANGED <<boards, boardSprints, sprintNumber, filteredSprints, sidx, query,
                   fetchLog, thrown, mainError, exitCode, html>>
    /\ UNCHANGED fetchedIssues

----------------------------------------------------------------------------
(* The same loop over issues with and without an original estimate and with
   and without an assignee.  Jira answers the third query, for the issues
   without estimate, by the very issues of the sprint that have none. *)

EstimateIssues(k) ==
    { [key |-> k, status |-> s, assignee |-> a, timeoriginalestimate |-> e,
       hasChangelog |-> FALSE, histories |-> <<>>, worklogs |-> <<>>] :
        s \in {"In Progress", "Done"}, a \in {"", "Alice", "Bob"}, e \in {0, 3600} }

\* the answers to the third query: for every key of the sprint, either no
\* issue or an issue without estimate, in the order of the keys
RECURSIVE EstimateResponses(_)
EstimateResponses(n) ==
    IF n = 0 THEN {<<>>}
    ELSE { r \o t : r \in EstimateResponses(n - 1),
                    t \in {<<>>} \cup { <<i>> : i \in { i \in EstimateIssues(IssueKey(n)) :
                                                       i.timeoriginalestimate = 0 } } }

\* the issue of a key as the first query delivers it: the one the third
\* query answered, or any with an estimate when it answered none
Delivered(response, k) ==
    IF \E n \in 1..Len(response) : response[n].key = k
    THEN { response[n] : n \in { n \in 1..Len(response) : response[n].key = k } }
    ELSE { i \in EstimateIssues(k) : i.timeoriginalestimate # 0 }

EstimateInit ==
    \E sp \in Sprints, response \in EstimateResponses(MaxIssues) :
        SprintInitWith(sp, response)

EstimateLoopBody == LoopBodyFrom(Delivered(noEstimateResponse, IssueKey(idx + 1)))

EstimateNext ==
    \/ EstimateLoopBody
    \/ NextIssue
    \/ FinishSprint

EstimateSpec == EstimateInit /\ [][EstimateNext]_vars

----------------------------------------------------------------------------
(* The whole run: main, the lookup of the board and of its sprints, the
   fetch of each sprint by three queries one after the other, the issue loop,
   the rendering, the report *)

NoSprint == [id |-> 0, name |-> "", startDate |-> 0, endDate |-> 0]

\* what jira.getAllBoards answers: the project key of each board
BoardLists == { <<>>, <<"OPS">>, <<ProjectKey>>, <<"OPS", ProjectKey>> }

Sprint1 == [id |-> 1, name |-> "Sprint 1", startDate |-> 30, endDate |-> 44]

Sprint2 == [id |-> 2, name |-> "Sprint 2", startDate |-> 44, endDate |-> 58]

Sprint21 == [id |-> 21, name |-> "Sprint 21", startDate |-> 58, endDate |-> 72]

\* what jira.getAllSprints answers
SprintLists == { <<>>, <<Sprint1>>, <<Sprint1, Sprint2>>, <<Sprint21, Sprint1>> }

\* args.sprintNumber, "" when the command line names none
SprintNumbers == {"", "1", "2", "3"}

\* the errors of the Jira client
FetchErrors == {"ETIMEDOUT", "Request failed with status code 401"}

\* line 288
NoBoardError == "No board found for project " \o ProjectKey

\* line 305
NoSprintError(number) == "No sprints found matching number " \o number

\* String.prototype.includes
Includes(s, t) ==
    \E i \in 0..(Len(s) - Len(t)) : SubSeq(s, i + 1, i + Len(t)) = t

\* ProjectBoards that keeps every board, whatever its project
ProjectBoardsOfAnyProject(bs) == bs

\* lines 283-285
RECURSIVE ProjectBoards(_)
ProjectBoards(bs) ==
    IF bs = <<>> THEN <<>>
    ELSE IF Head(bs) = ProjectKey THEN <<Head(bs)>> \o ProjectBoards(Tail(bs))
         ELSE ProjectBoards(Tail(bs))

\* lines 300-302
RECURSIVE MatchingSprints(_, _)
MatchingSprints(sps, number) ==
    IF sps = <<>> THEN <<>>
    ELSE IF Includes(Head(sps).name, number)
         THEN <<Head(sps)>> \o MatchingSprints(Tail(sps), number)
         ELSE MatchingSprints(Tail(sps), number)

\* the issues a sprint's first query can deliver: a finished issue started
\* and reviewed by one person, a finished issue shipped by one person, an
\* unfinished issue started by one person; each with an hour logged on day 30
RunIssues(k) ==
    { [key |-> k, status |-> st.status, assignee |-> "",
       timeoriginalestimate |-> 3600, hasChangelog |-> TRUE,
       histories |-> <<[author |-> a, created |-> 29, items |-> st.items]>>,
       worklogs |-> <<[author |-> a, started |-> 30, timeSpentSeconds |-> 3600]>>] :
        a \in Persons,
        st \in { [status |-> "Done",
                  items |-> <<FC("status", "To Do", "In Progress"),
                              FC("status", "PR Ready", "Testing")>>],
                 [status |-> "Done",
                  items |-> <<FC("status", "Testing", "UAT Ready")>>],
                 [status |-> "In Progress",
                  items |-> <<FC("status", "To Do", "In Progress")>>] } }

\* main is entered; nothing has been asked of Jira yet
RunInit ==
    /\ boards \in BoardLists
    /\ boardSprints \in SprintLists
    /\ sprintNumber \in SprintNumbers
    /\ sprint = NoSprint
    /\ idx = 0
    /\ issue = NoIssue
    /\ ingested = NoIssue
    /\ completedIssues = 0
    /\ completionStats = <<>>
    /\ reviewerStats = <<>>
    /\ shipperStats = <<>>
    /\ spilloverStats = <<>>
    /\ timeLogged = <<>>
    /\ noEstimateResponse = <<>>
    /\ missingEstimates = <<>>
    /\ sprintSummaries = <<>>
    /\ pc = "start"
    /\ filteredSprints = <<>>
    /\ sidx = 0
    /\ query = 0
    /\ fetchLog = <<>>
    /\ thrown = ""
    /\ mainError = ""
    /\ exitCode = -1
    /\ totals = NoTotals
    /\ rows = <<>>
    /\ printed = <<>>
    /\ leaderboards = <<>>
    /\ returned = NotReturned
    /\ html = FALSE
    /\ fetchedIssues = <<>>

\* a catch block that wraps the error it throws on
RethrowWrapped(error) == "Error fetching sprints: " \o error

\* lines 213-216 and 1154-1157: catch (error) { console.error(...); throw error; }
Rethrow(error) == error

\* an error leaves getAllProjectSprints and reaches the catch of main, which
\* ends the process, lines 1206-1209; e is the error where it arose
Fail(e, atMain) ==
    /\ thrown' = e
    /\ mainError' = atMain
    /\ exitCode' = 1
    /\ pc' = "exited"
    /\ UNCHANGED <<sprint, idx, issue, ingested, completedIssues, completionStats,
                   reviewerStats, shipperStats, spilloverStats, sprintSummaries,
                   timeLogged,
                   noEstimateResponse, missingEstimates>>
    /\ UNCHANGED <<boards, boardSprints, sprintNumber, filteredSprints, sidx, query,
                   fetchLog, totals, rows, printed, leaderboards, returned, html>>
    /\ UNCHANGED fetchedIssues

\* lines 282-292: getAllBoards answers; the boards of the project are kept
GetBoards ==
    /\ pc = "start"
    /\ IF Len(ProjectBoards(boards)) = 0
       THEN Fail(NoBoardError, Rethrow(NoBoardError))
       ELSE /\ pc' = "sprints"
            /\ UNCHANGED <<sprint, idx, issue, ingested, completedIssues,
                           completionStats, reviewerStats, shipperStats,
                           spilloverStats, sprintSummaries, timeLogged,
                           noEstimateResponse, missingEstimates>>
            /\ UNCHANGED runVars
    /\ UNCHANGED fetchedIssues

\* lines 295-307: getAllSprints answers; the sprints are filtered when a
\* sprint number is given
GetSprints ==
    /\ pc = "sprints"
    /\ IF sprintNumber # "" /\ Len(MatchingSprints(boardSprints, sprintNumber)) = 0
       THEN Fail(NoSprintError(sprintNumber), Rethrow(NoSprintError(sprintNumber)))
       ELSE /\ filteredSprints' = IF sprintNumber # ""
                                  THEN MatchingSprints(boardSprints, sprintNumber)
                                  ELSE boardSprints
            /\ pc' = "sprintLoop"
            /\ UNCHANGED <<sprint, idx, issue, ingested, completedIssues,
                           completionStats, reviewerStats, shipperStats,
                           spilloverStats, sprintSummaries, timeLogged,
                           noEstimateResponse, missingEstimates>>
            /\ UNCHANGED <<boards, boardSprints, sprintNumber, sidx, query, fetchLog,
                           thrown, mainError, exitCode, totals, rows, printed,
                           leaderboards, returned, html>>
    /\ UNCHANGED fetchedIssues

\* lines 282 and 295: getAllBoards or getAllSprints fails
LookupFails(e) ==
    /\ pc \in {"start", "sprints"}
    /\ Fail(e, Rethrow(e))

\* StartFetch that takes the next sprint as soon as the fetch of the sprint
\* before it has returned, its issues not yet aggregated
StartFetchAhead ==
    /\ pc \in {"sprintLoop", "loop"}
    /\ sidx < Len(filteredSprints)
    /\ sidx' = sidx + 1
    /\ sprint' = filteredSprints[sidx + 1]
    /\ query' = 1
    /\ fetchLog' = Append(fetchLog, [sprint |-> filteredSprints[sidx + 1].id, query |-> 1])
    /\ pc' = "query"
    /\ idx' = 0
    /\ issue' = NoIssue
    /\ ingested' = NoIssue
    /\ completedIssues' = 0
    /\ completionStats' = <<>>
    /\ reviewerStats' = <<>>
    /\ shipperStats' = <<>>
    /\ spilloverStats' = <<>>
    /\ timeLogged' = <<>>
    /\ noEstimateResponse' = <<>>
    /\ missingEstimates' = <<>>
    /\ UNCHANGED sprintSummaries
    /\ UNCHANGED <<boards, boardSprints, sprintNumber, filteredSprints, thrown,
                   mainError, exitCode, totals, rows, printed, leaderboards, returned,
                   html>>
    /\ fetchedIssues' = Append(fetchedIssues, <<>>)

\* StartFetch with the per-person maps and the counter declared outside the
\* loop over the sprints, so that they go on from one sprint to the next
StartFetchKeepingMaps ==
    /\ pc = "sprintLoop"
    /\ sidx < Len(filteredSprints)
    /\ sidx' = sidx + 1
    /\ sprint' = filteredSprints[sidx + 1]
    /\ query' = 1
    /\ fetchLog' = Append(fetchLog, [sprint |-> filteredSprints[sidx + 1].id, query |-> 1])
    /\ pc' = "query"
    /\ idx' = 0
    /\ issue' = NoIssue
    /\ ingested' = NoIssue
    /\ noEstimateResponse' = <<>>
    /\ missingEstimates' = <<>>
    /\ UNCHANGED <<sprintSummaries, completedIssues, completionStats, reviewerStats,
                   shipperStats, spilloverStats, timeLogged>>
    /\ UNCHANGED <<boards, boardSprints, sprintNumber, filteredSprints, thrown,
                   mainError, exitCode, totals, rows, printed, leaderboards, returned,
                   html>>
    /\ fetchedIssues' = Append(fetchedIssues, <<>>)

\* lines 313-315 and 182: the next sprint is taken, the state of the sprint
\* before it leaves its scope, getSprintIssues sends its first query
StartFetch ==
    /\ pc = "sprintLoop"
    /\ sidx < Len(filteredSprints)
    /\ sidx' = sidx + 1
    /\ sprint' = filteredSprints[sidx + 1]
    /\ query' = 1
    /\ fetchLog' = Append(fetchLog, [sprint |-> filteredSprints[sidx + 1].id, query |-> 1])
    /\ pc' = "query"
    /\ idx' = 0
    /\ issue' = NoIssue
    /\ ingested' = NoIssue
    /\ completedIssues' = 0
    /\ completionStats' = <<>>
    /\ reviewerStats' = <<>>
    /\ shipperStats' = <<>>
    /\ spilloverStats' = <<>>
    /\ timeLogged' = <<>>
    /\ noEstimateResponse' = <<>>
    /\ missingEstimates' = <<>>
    /\ UNCHANGED sprintSummaries
    /\ UNCHANGED <<boards, boardSprints, sprintNumber, filteredSprints, thrown,
                   mainError, exitCode, totals, rows, printed, leaderboards, returned,
                   html>>
    /\ fetchedIssues' = Append(fetchedIssues, <<>>)

\* lines 182-211: the query in flight answers; the next one is sent, or, after
\* the third, getSprintIssues returns and the empty state of the sprint,
\* lines 316-325, meets the loop over its issues
QueryReturns ==
    /\ pc = "query"
    /\ IF query < 3
       THEN /\ query' = query + 1
            /\ fetchLog' = Append(fetchLog, [sprint |-> sprint.id, query |-> query + 1])
            /\ UNCHANGED pc
       ELSE /\ query' = 0
            /\ pc' = "loop"
            /\ UNCHANGED fetchLog
    /\ UNCHANGED <<sprint, idx, issue, ingested, completedIssues, completionStats,
                   reviewerStats, shipperStats, spilloverStats, sprintSummaries,
                   timeLogged,
                   noEstimateResponse, missingEstimates>>
    /\ UNCHANGED <<boards, boardSprints, sprintNumber, filteredSprints, sidx, thrown,
                   mainError, exitCode, totals, rows, printed, leaderboards, returned,
                   html>>
    /\ UNCHANGED fetchedIssues

\* lines 213-216, 1154-1157, 1206-1209: the query in flight fails; the catch
\* of getSprintIssues and that of getAllProjectSprints throw the error on, main
\* ends the process.  query keeps the number of the query that failed.
QueryFails(e) ==
    /\ pc = "query"
    /\ Fail(e, Rethrow(Rethrow(e)))

RunLoopBody == LoopBodyKeeping(RunIssues(IssueKey(idx + 1)))

\* the errors of fs.readFileSync of template.html and of fs.writeFileSync of
\* sprint-report.html, lines 1170 and 1180
ReportErrors ==
    { "ENOENT: no such file or directory, open template.html",
      "EACCES: permission denied, open sprint-report.html" }

\* lines 1182-1185 and 1206-1209: reading the template or writing the report
\* fails; the catch of generateHtmlReport throws the error on, the catch of
\* main ends the process with 1, no report being written
GenerateHtmlFails(e) ==
    /\ pc = "main"
    /\ Fail(e, Rethrow(e))

\* lines 1160-1181 and 1205: generateHtmlReport writes the report, main ends
GenerateHtml ==
    /\ pc = "main"
    /\ html' = TRUE
    /\ exitCode' = 0
    /\ pc' = "exited"
    /\ UNCHANGED <<sprint, idx, issue, ingested, completedIssues, completionStats,
                   reviewerStats, shipperStats, spilloverStats, sprintSummaries,
                   timeLogged,
                   noEstimateResponse, missingEstimates>>
    /\ UNCHANGED <<boards, boardSprints, sprintNumber, filteredSprints, sidx, query,
                   fetchLog, thrown, mainError, totals, rows, printed, leaderboards,
                   returned>>
    /\ UNCHANGED fetchedIssues

RunNext ==
    \/ GetBoards
    \/ GetSprints
    \/ \E e \in FetchErrors : LookupFails(e)
    \/ StartFetch
    \/ QueryReturns
    \/ \E e \in FetchErrors : QueryFails(e)
    \/ RunLoopBody
    \/ NextIssue
    \/ FinishSprint
    \/ Render
    \/ GenerateHtml
    \/ \E e \in ReportErrors : GenerateHtmlFails(e)

RunSpec == RunInit /\ [][RunNext]_vars

----------------------------------------------------------------------------
(* The leaderboards of two sprints whose logged time is any map of up to
   four persons in the first and of up to one in the second: the state after
   the summary of the second sprint is pushed.  Two of the persons bear a
   display name that is a number. *)

LeaderSprints ==
    << [id |-> 1, name |-> "Sprint 1", startDate |-> 30, endDate |-> 44],
       [id |-> 2, name |-> "Sprint 2", startDate |-> 44, endDate |-> 58] >>

LeaderPersons == {"Alice", "Bob", "9", "10"}

LeaderSeconds == {1800, 3600, 5400}

\* the maps of logged time, in every order of creation, no person twice
TimeMaps(longest) ==
    { m \in SeqsUpTo([name : LeaderPersons, seconds : LeaderSeconds], longest) :
        \A i, j \in 1..Len(m) : i # j => m[i].name # m[j].name }

\* lines 623-637, of a sprint whose issues carry nothing but worklogs
TimeSummary(sp, tl) ==
    [id |-> sp.id, name |-> sp.name,
     startDate |-> sp.startDate, endDate |-> sp.endDate,
     totalIssues |-> MaxIssues, completedIssues |-> 0, timeLogged |-> tl,
     completionStats |-> <<>>, reviewerStats |-> <<>>,
     shipperStats |-> <<>>, spilloverStats |-> <<>>, missingEstimates |-> <<>>]

LeaderInit ==
    \E tl1 \in TimeMaps(Cardinality(LeaderPersons)), tl2 \in TimeMaps(1) :
        /\ sprint = LeaderSprints[2]
        /\ idx = MaxIssues
        /\ issue = NoIssue
        /\ ingested = NoIssue
        /\ completedIssues = 0
        /\ completionStats = <<>>
        /\ reviewerStats = <<>>
        /\ shipperStats = <<>>
        /\ spilloverStats = <<>>
        /\ timeLogged = tl2
        /\ noEstimateResponse = <<>>
        /\ missingEstimates = <<>>
        /\ sprintSummaries = << TimeSummary(LeaderSprints[1], tl1),
                                TimeSummary(LeaderSprints[2], tl2) >>
        /\ pc = "sprintLoop"
        /\ boards = <<ProjectKey>>
        /\ boardSprints = LeaderSprints
        /\ sprintNumber = ""
        /\ filteredSprints = LeaderSprints
        /\ sidx = 2
        /\ query = 0
        /\ fetchLog = QueriesOf(LeaderSprints[1]) \o QueriesOf(LeaderSprints[2])
        /\ thrown = ""
        /\ mainError = ""
        /\ exitCode = -1
        /\ totals = NoTotals
        /\ rows = <<>>
        /\ printed = <<>>
        /\ leaderboards = <<>>
        /\ returned = NotReturned
        /\ html = FALSE
        /\ fetchedIssues = <<>>

LeaderNext == Render

LeaderSpec == LeaderInit /\ [][LeaderNext]_vars

----------------------------------------------------------------------------
(* The same loop over unfinished issues of many ages, for the age of a
   spillover: a sprint starting on day 100 and issues first touched from one
   day to eighty-five days before it *)

AgeSprint == [id |-> 7, name |-> "Sprint 7", startDate |-> 100, endDate |-> 114]

AgeTimes == {15, 16, 43, 44, 71, 72, 85, 86, 99, 100}

AgeIssues(k) ==
    { [key |-> k, status |-> "In Progress", assignee |-> "",
       timeoriginalestimate |-> 3600, hasChangelog |-> TRUE,
       histories |-> <<[author |-> a, created |-> t, items |-> <<c>>]>>,
       worklogs |-> <<>>] :
        a \in Persons, t \in AgeTimes,
        c \in {FC("status", "To Do", "In Progress"),
               FC("assignee", "To Do", "In Progress")} }

AgeInit == SprintInit(AgeSprint)

AgeLoopBody == LoopBodyFrom(AgeIssues(IssueKey(idx + 1)))

AgeNext ==
    \/ AgeLoopBody
    \/ NextIssue
    \/ FinishSprint

AgeSpec == AgeInit /\ [][AgeNext]_vars

----------------------------------------------------------------------------
(* The same loop over issues that carry worklogs, started just before, at and
   just after the two ends of the sprint *)

MaxWorklogs == 2

WorklogTimes == {29, 30, 44, 45}

Worklogs == [author : Persons, started : WorklogTimes, timeSpentSeconds : {1800, 3600}]

WorklogIssues(k) ==
    { [key |-> k, status |-> "In Progress", assignee |-> "",
       timeoriginalestimate |-> 3600, hasChangelog |-> FALSE,
       histories |-> <<>>, worklogs |-> w] :
        w \in SeqsUpTo(Worklogs, MaxWorklogs) }

WorklogLoopBody == LoopBodyFrom(WorklogIssues(IssueKey(idx + 1)))

WorklogNext ==
    \/ WorklogLoopBody
    \/ NextIssue
    \/ FinishSprint

WorklogSpec == Init /\ [][WorklogNext]_vars

----------------------------------------------------------------------------
(* The same loop over issues of any status, with and without assignee and
   change history, that carry worklogs started in and after the sprint; the
   issues delivered are kept *)

LoggedWorklogs == [author : Persons, started : {30, 45}, timeSpentSeconds : {1800, 3600}]

\* status, assignee and presence of a change history of the issues
LoggedKinds ==
    { [status |-> "Done", assignee |-> "", hasChangelog |-> TRUE],
      [status |-> "Done", assignee |-> "Alice", hasChangelog |-> FALSE],
      [status |-> "In Progress", assignee |-> "", hasChangelog |-> TRUE],
      [status |-> "In Progress", assignee |-> "Alice", hasChangelog |-> FALSE] }

LoggedIssues(k) ==
    { [key |-> k, status |-> kind.status, assignee |-> kind.assignee,
       timeoriginalestimate |-> 3600, hasChangelog |-> kind.hasChangelog,
       histories |-> <<>>, worklogs |-> w] :
        kind \in LoggedKinds, w \in SeqsUpTo(LoggedWorklogs, MaxWorklogs) }

\* lines 316-325: the state after the fetch of the one sprint of the board
LoggedInit ==
    \E sp \in Sprints :
        /\ sprint = sp
        /\ idx = 0
        /\ issue = NoIssue
        /\ ingested = NoIssue
        /\ completedIssues = 0
        /\ completionStats = <<>>
        /\ reviewerStats = <<>>
        /\ shipperStats = <<>>
        /\ spilloverStats = <<>>
        /\ timeLogged = <<>>
        /\ noEstimateResponse = <<>>
        /\ missingEstimates = <<>>
        /\ sprintSummaries = <<>>
        /\ pc = "loop"
        /\ boards = <<ProjectKey>>
        /\ boardSprints = <<sp>>
        /\ sprintNumber = ""
        /\ filteredSprints = <<sp>>
        /\ sidx = 1
        /\ query = 0
        /\ fetchLog = QueriesOf(sp)
        /\ thrown = ""
        /\ mainError = ""
        /\ exitCode = -1
        /\ totals = NoTotals
        /\ rows = <<>>
        /\ printed = <<>>
        /\ leaderboards = <<>>
        /\ returned = NotReturned
        /\ html = FALSE
        /\ fetchedIssues = << <<>> >>

LoggedLoopBody == LoopBodyKeeping(LoggedIssues(IssueKey(idx + 1)))

LoggedNext ==
    \/ LoggedLoopBody
    \/ NextIssue
    \/ FinishSprint

LoggedSpec == LoggedInit /\ [][LoggedNext]_vars

----------------------------------------------------------------------------
(* What the claims speak of, stated on the ingested input and on the       *)
(* per-person maps, independently of the loops above.                      *)

\* the positions <<event, field change>> of a history
Positions(h) ==
    UNION { { <<i, j>> : j \in 1..Len(h[i].items) } : i \in 1..Len(h) }

\* event a is examined before event b: ascending timestamps, ties in input order
EventBefore(h, a, b) ==
    \/ h[a].created < h[b].created
    \/ h[a].created = h[b].created /\ a < b

PosBefore(h, p, q) ==
    \/ EventBefore(h, p[1], q[1])
    \/ p[1] = q[1] /\ p[2] < q[2]

Matches(h, P(_)) == { p \in Positions(h) : P(h[p[1]].items[p[2]]) }

FirstMatch(h, P(_)) ==
    CHOOSE p \in Matches(h, P) : \A q \in Matches(h, P) : q = p \/ PosBefore(h, p, q)

IsStatus(fc, from, to) ==
    fc.field = "status" /\ fc.fromString = from /\ fc.toString = to

StatusFrom(fc, from) == fc.field = "status" /\ fc.fromString = from

StatusTo(fc, to) == fc.field = "status" /\ fc.toString = to

ToDoToInProgress(fc) == IsStatus(fc, "To Do", "In Progress")
FromToDo(fc) == StatusFrom(fc, "To Do")
ToInProgress(fc) == StatusTo(fc, "In Progress")
PRReadyToTesting(fc) == IsStatus(fc, "PR Ready", "Testing")
FromPRReady(fc) == StatusFrom(fc, "PR Ready")
TestingToUATReady(fc) == IsStatus(fc, "Testing", "UAT Ready")
FromTesting(fc) == StatusFrom(fc, "Testing")
ToUATReady(fc) == StatusTo(fc, "UAT Ready")

Attr(person, certain) == [person |-> person, certain |-> certain]

Occurrences(list, x) == Cardinality({ i \in 1..Len(list) : list[i] = x })

\* the attributions a metric's per-person lists hold for a key, and how often
StarterOf(key) ==
    { a \in [person : Persons \cup {Unknown}, certain : BOOLEAN] :
        \E i \in 1..Len(completionStats) :
            /\ completionStats[i].name = a.person
            /\ Occurrences(completionStats[i].completedIssues,
                           IF a.certain THEN key ELSE key \o "*") > 0 }

ReviewerOf(key) ==
    { a \in [person : Persons \cup {Unknown}, certain : BOOLEAN] :
        \E i \in 1..Len(reviewerStats) :
            /\ reviewerStats[i].name = a.person
            /\ Occurrences(reviewerStats[i].reviewedIssues,
                           IF a.certain THEN key ELSE key \o "*") > 0 }

ShipperOf(key) ==
    { a \in [person : Persons \cup {Unknown}, certain : BOOLEAN] :
        \E i \in 1..Len(shipperStats) :
            /\ shipperStats[i].name = a.person
            /\ Occurrences(shipperStats[i].shippedIssues,
                           IF a.certain THEN key ELSE key \o "*") > 0 }

RECURSIVE SumOver(_, _)
SumOver(m, field) ==
    IF m = <<>> THEN 0 ELSE Head(m)[field] + SumOver(Tail(m), field)

\* how often a key, marked or not, stands in the lists of one metric
RECURSIVE KeyCount(_, _, _)
KeyCount(m, field, key) ==
    IF m = <<>> THEN 0
    ELSE Occurrences(Head(m)[field], key) + Occurrences(Head(m)[field], key \o "*")
         + KeyCount(Tail(m), field, key)

\* the spillover entries recorded for a key, with the person they stand under
SpilloversOf(key) ==
    UNION { { [person |-> spilloverStats[i].name, at |-> n,
               startDate |-> spilloverStats[i].issues[n].startDate] :
                n \in { n \in 1..Len(spilloverStats[i].issues) :
                          spilloverStats[i].issues[n].key = key } } :
            i \in 1..Len(spilloverStats) }

\* an issue has just gone through the loop body
Processed == pc = "body"

----------------------------------------------------------------------------
(* C1 *)

\* the attribution a primary/fallback pair of predicates prescribes
Prescribed(h, Primary(_), Fallback(_)) ==
    IF Matches(h, Primary) # {}
    THEN Attr(h[FirstMatch(h, Primary)[1]].author, TRUE)
    ELSE IF Matches(h, Fallback) # {}
    THEN Attr(h[FirstMatch(h, Fallback)[1]].author, FALSE)
    ELSE Attr(Unknown, FALSE)

\* C1 as stated: a Done issue whose history holds a status change from "To Do"
\* is attributed to the actor of the first "To Do" -> "In Progress" change,
\* certain, and only without such a change to the actor of the first change
\* from "To Do", uncertain.
C1_StarterRuleAsStated ==
    (Processed /\ ingested.status = "Done" /\ ingested.hasChangelog
       /\ Matches(ingested.histories, FromToDo) # {})
    => /\ StarterOf(ingested.key)
            = { Prescribed(ingested.histories, ToDoToInProgress, FromToDo) }
       /\ KeyCount(completionStats, "completedIssues", ingested.key) = 1

\* C1 amended: a Done issue with a change history is attributed to the actor of
\* the first status change to "In Progress" from any status, certain exactly
\* when that change comes from "To Do"; only when no status change to
\* "In Progress" exists, to the actor of the first status change from "To Do",
\* uncertain.
C1_StarterRule ==
    (Processed /\ ingested.status = "Done" /\ ingested.hasChangelog)
    => LET h == ingested.histories
       IN  /\ Matches(h, ToInProgress) # {} =>
                LET p == FirstMatch(h, ToInProgress)
                IN  StarterOf(ingested.key)
                      = { Attr(h[p[1]].author, h[p[1]].items[p[2]].fromString = "To Do") }
           /\ (Matches(h, ToInProgress) = {} /\ Matches(h, FromToDo) # {}) =>
                StarterOf(ingested.key)
                  = { Attr(h[FirstMatch(h, FromToDo)[1]].author, FALSE) }
           /\ KeyCount(completionStats, "completedIssues", ingested.key) = 1

\* a Done issue whose later-listed, earlier-dated event moves it to
\* "In Progress" from another status than "To Do", and which also has a
\* "To Do" -> "In Progress" change
C1_Witness ==
    /\ Processed /\ ingested.status = "Done" /\ ingested.hasChangelog
    /\ Len(ingested.histories) = 2
    /\ ingested.histories[1].created > ingested.histories[2].created
    /\ Matches(ingested.histories, ToDoToInProgress) # {}
    /\ LET p == FirstMatch(ingested.histories, ToInProgress)
       IN  /\ p[1] = 2
           /\ ingested.histories[2].items[p[2]].fromString # "To Do"
    /\ StarterOf(ingested.key) = { Attr(ingested.histories[2].author, FALSE) }

----------------------------------------------------------------------------
(* C2 *)

\* C2: a Done issue is attributed, as reviewed, to the actor of the first
\* "PR Ready" -> "Testing" change, certain, also when an earlier event left
\* "PR Ready" for another status; only without any such change to the actor of
\* the first status change from "PR Ready", uncertain.
C2_ReviewerRule ==
    (Processed /\ ingested.status = "Done" /\ ingested.hasChangelog
       /\ Matches(ingested.histories, FromPRReady) # {})
    => /\ ReviewerOf(ingested.key)
            = { Prescribed(ingested.histories, PRReadyToTesting, FromPRReady) }
       /\ KeyCount(reviewerStats, "reviewedIssues", ingested.key) = 1

\* a Done issue that left "PR Ready" for "In Progress" by one person before
\* another person moved it from "PR Ready" to "Testing"
C2_Witness ==
    /\ Processed /\ ingested.status = "Done" /\ ingested.hasChangelog
    /\ Len(ingested.histories) = 2
    /\ LET h == ingested.histories
       IN  /\ Matches(h, PRReadyToTesting) # {}
           /\ h[1].author # h[2].author
           /\ FirstMatch(h, FromPRReady) # FirstMatch(h, PRReadyToTesting)
           /\ FirstMatch(h, FromPRReady)[1] # FirstMatch(h, PRReadyToTesting)[1]
           /\ ReviewerOf(ingested.key)
                = { Attr(h[FirstMatch(h, PRReadyToTesting)[1]].author, TRUE) }

----------------------------------------------------------------------------
(* C3 *)

\* the issue is completed or reached "UAT Ready"
ShipperApplies(iss) ==
    \/ iss.status = "Done"
    \/ iss.status = "UAT Ready"
    \/ iss.hasChangelog /\ Matches(iss.histories, ToUATReady) # {}

\* C3: an issue that is completed or reached "UAT Ready" is attributed, as
\* shipped, to the actor of the first "Testing" -> "UAT Ready" change, certain,
\* also when an earlier event left "Testing" for another status; only without
\* any such change to the actor of the first status change from "Testing",
\* uncertain.
C3_ShipperRule ==
    (Processed /\ ShipperApplies(ingested) /\ ingested.hasChangelog
       /\ Matches(ingested.histories, FromTesting) # {})
    => /\ ShipperOf(ingested.key)
            = { Prescribed(ingested.histories, TestingToUATReady, FromTesting) }
       /\ KeyCount(shipperStats, "shippedIssues", ingested.key) = 1

\* an issue in "UAT Ready" that left "Testing" for "In Progress" by one person
\* before another person moved it from "Testing" to "UAT Ready"
C3_Witness ==
    /\ Processed /\ ingested.status = "UAT Ready" /\ ingested.hasChangelog
    /\ Len(ingested.histories) = 2
    /\ LET h == ingested.histories
       IN  /\ Matches(h, TestingToUATReady) # {}
           /\ h[1].author # h[2].author
           /\ FirstMatch(h, FromTesting)[1] # FirstMatch(h, TestingToUATReady)[1]
           /\ ShipperOf(ingested.key)
                = { Attr(h[FirstMatch(h, TestingToUATReady)[1]].author, TRUE) }

----------------------------------------------------------------------------
(* C4 *)

\* C4: the started counts and the completed counts of all persons both add up
\* to completedIssues, at every point of the aggregation and in every summary.
C4_StartedSumsToCompleted ==
    /\ SumOver(completionStats, "started") = completedIssues
    /\ SumOver(completionStats, "completed") = completedIssues
    /\ \A n \in 1..Len(sprintSummaries) :
          /\ SumOver(sprintSummaries[n].completionStats, "started")
               = sprintSummaries[n].completedIssues
          /\ SumOver(sprintSummaries[n].completionStats, "completed")
               = sprintSummaries[n].completedIssues

----------------------------------------------------------------------------
(* C5 *)

\* the change events of an issue; none when it carries no changelog
EventsOf(iss) == IF iss.hasChangelog THEN iss.histories ELSE <<>>

\* C5: an issue with a qualifying status and no change matching a classifier's
\* primary or fallback predicate (so also one with no change events) stands
\* under "Unknown", marked, for every classifier that applies to it.
C5_UnknownNeverDropped ==
    Processed =>
       LET h == EventsOf(ingested)
           key == ingested.key
       IN  /\ (ingested.status = "Done" /\ Matches(h, FromToDo) = {})
                => StarterOf(key) = { Attr(Unknown, FALSE) }
           /\ (ingested.status = "Done" /\ Matches(h, FromPRReady) = {})
                => ReviewerOf(key) = { Attr(Unknown, FALSE) }
           /\ (ShipperApplies(ingested) /\ Matches(h, FromTesting) = {})
                => ShipperOf(key) = { Attr(Unknown, FALSE) }

----------------------------------------------------------------------------
(* C6 *)

\* C6: an issue that is neither completed nor reached "UAT Ready" stands in no
\* shipper bucket.
C6_ShipperOnlyWhenApplicable ==
    (Processed /\ ~ShipperApplies(ingested))
    => KeyCount(shipperStats, "shippedIssues", ingested.key) = 0

----------------------------------------------------------------------------
(* C7 *)

\* C7: a step that processes an issue whose status is not Done leaves
\* completionStats and reviewerStats as they were.
C7_DoneOnly ==
    [][ingested'.status # "Done"
         => (completionStats' = completionStats /\ reviewerStats' = reviewerStats)]_vars

\* the second issue of a sprint is in progress, its history holds a move to
\* "In Progress" and one out of "PR Ready", and the first issue was attributed
C7_Witness ==
    /\ Processed /\ idx = 2 /\ ingested.status = "In Progress" /\ ingested.hasChangelog
    /\ Matches(ingested.histories, ToDoToInProgress) # {}
    /\ Matches(ingested.histories, PRReadyToTesting) # {}
    /\ completionStats # <<>> /\ reviewerStats # <<>>
    /\ StarterOf(ingested.key) = {} /\ ReviewerOf(ingested.key) = {}

----------------------------------------------------------------------------
(* C8 *)

\* out is h in ascending order of the timestamps, equal timestamps in the
\* order of h
IsStableAscending(h, out) ==
    /\ Len(out) = Len(h)
    /\ \E f \in [1..Len(h) -> 1..Len(h)] :
          /\ \A k, l \in 1..Len(h) : k < l => EventBefore(h, f[k], f[l])
          /\ \A k \in 1..Len(h) : out[k] = h[f[k]]

\* the persons a set of attributions names
PersonsOf(attrs) == { a.person : a \in attrs }

\* C8: the events the walkers examine are the ingested ones in ascending
\* timestamp order, equal timestamps in input order; among the events that
\* carry a classifier's direct transition the one first in that order gives
\* the person, wherever it stands in the input.
C8_SortedBeforeMatching ==
    (Processed /\ ingested.hasChangelog)
    => LET h == ingested.histories
           key == ingested.key
       IN  /\ IsStableAscending(h, issue.histories)
           /\ Matches(h, TestingToUATReady) # {}
                => PersonsOf(ShipperOf(key))
                     = { h[FirstMatch(h, TestingToUATReady)[1]].author }
           /\ (ingested.status = "Done" /\ Matches(h, PRReadyToTesting) # {})
                => PersonsOf(ReviewerOf(key))
                     = { h[FirstMatch(h, PRReadyToTesting)[1]].author }
           /\ (ingested.status = "Done" /\ Matches(h, ToInProgress) # {})
                => PersonsOf(StarterOf(key))
                     = { h[FirstMatch(h, ToInProgress)[1]].author }

\* two events by different persons carry the same "Testing" -> "UAT Ready"
\* change, the later one is listed first, and the earlier one's actor ships
C8_Witness ==
    /\ Processed /\ ingested.hasChangelog /\ Len(ingested.histories) = 2
    /\ LET h == ingested.histories
       IN  /\ h[1].items = h[2].items
           /\ h[1].author # h[2].author
           /\ h[1].created > h[2].created
           /\ Matches(h, TestingToUATReady) # {}
           /\ ShipperOf(ingested.key) = { Attr(h[2].author, TRUE) }
           /\ issue.histories = <<h[2], h[1]>>

----------------------------------------------------------------------------
(* C9 *)

\* C9: after an issue has been processed its change events are the ingested
\* ones in the ingested order.
C9_InputUnchanged ==
    Processed => issue = ingested

----------------------------------------------------------------------------
(* C10 *)

StartFound(h) == Matches(h, ToInProgress) # {} \/ Matches(h, FromToDo) # {}

\* the event taken as the start: the first move to "In Progress", else the
\* first move out of "To Do"
StartEvent(h) ==
    IF Matches(h, ToInProgress) # {}
    THEN h[FirstMatch(h, ToInProgress)[1]]
    ELSE h[FirstMatch(h, FromToDo)[1]]

\* C10: an unfinished issue with a start moment has exactly one spillover
\* entry, under the starter, when the start moment is strictly before the
\* sprint start, and none when it is at or after it; a Done issue has none.
C10_SpilloverRecording ==
    Processed =>
       LET h == EventsOf(ingested)
           recorded == SpilloversOf(ingested.key)
       IN  /\ ingested.status = "Done" => recorded = {}
           /\ (ingested.status # "Done" /\ StartFound(h)) =>
                IF StartEvent(h).created < sprint.startDate
                THEN /\ Cardinality(recorded) = 1
                     /\ \A r \in recorded :
                          /\ r.person = StartEvent(h).author
                          /\ r.startDate = StartEvent(h).created
                ELSE recorded = {}

\* the second unfinished issue of one starter that began before the sprint is
\* recorded next to the first
C10_Witness ==
    /\ Processed /\ idx = 2 /\ ingested.status # "Done"
    /\ StartFound(EventsOf(ingested))
    /\ StartEvent(EventsOf(ingested)).created < sprint.startDate
    /\ Cardinality(SpilloversOf(ingested.key)) = 1
    /\ Len(spilloverStats) = 1 /\ spilloverStats[1].count = 2
    /\ spilloverStats[1].name = StartEvent(EventsOf(ingested)).author

----------------------------------------------------------------------------
(* C11 *)

\* the earliest timestamp of a non-empty history
EarliestCreated(h) ==
    CHOOSE t \in { h[i].created : i \in 1..Len(h) } :
        \A i \in 1..Len(h) : t <= h[i].created

\* C11: an unfinished issue without a start moment has one spillover entry,
\* under "Unknown" and dated at its earliest event, exactly when its history is
\* non-empty and that earliest event is strictly before the sprint start; with
\* an empty history it has none.
C11_SpilloverFallback ==
    (Processed /\ ingested.status # "Done" /\ ~StartFound(EventsOf(ingested)))
    => LET h == EventsOf(ingested)
           recorded == SpilloversOf(ingested.key)
       IN  IF Len(h) > 0 /\ EarliestCreated(h) < sprint.startDate
           THEN /\ Cardinality(recorded) = 1
                /\ \A r \in recorded :
                     r.person = Unknown /\ r.startDate = EarliestCreated(h)
           ELSE recorded = {}

\* an unfinished issue without a start moment whose first listed event is at
\* the sprint start and whose second is before it
C11_Witness ==
    /\ Processed /\ ingested.status # "Done" /\ ingested.hasChangelog
    /\ ~StartFound(ingested.histories)
    /\ Len(ingested.histories) = 2
    /\ ingested.histories[1].created = sprint.startDate
    /\ ingested.histories[2].created < sprint.startDate
    /\ \E r \in SpilloversOf(ingested.key) :
          r.person = Unknown /\ r.startDate = ingested.histories[2].created


----------------------------------------------------------------------------
(* Age and tier of a spillover *)

Range(q) == { q[n] : n \in 1..Len(q) }

TierNames == {"recent", "moderate", "old", "critical"}

\* the tier the stated ranges give an age
StatedTier(age) ==
    CASE age <= 2 -> "recent"
      [] age >= 3 /\ age <= 4 -> "moderate"
      [] age >= 5 /\ age <= 6 -> "old"
      [] age >= 7 -> "critical"

\* the recorded spillover items, each with the bucket it is recorded in
SpilloverEntries ==
    UNION { { [bucket |-> i, item |-> spilloverStats[i].issues[n]] :
                n \in 1..Len(spilloverStats[i].issues) } :
            i \in 1..Len(spilloverStats) }

TiersOf(e) ==
    { g \in TierNames :
        <<e.item.key, e.item.sprintAge>> \in Range(spilloverStats[e.bucket].ageGroups[g]) }

\* C12: the sprintAge of a recorded spillover item is the least whole number
\* of 14-day sprints covering the days from its start moment to the sprint
\* start (the ceiling of days / 14), and the item is listed in the tier of
\* that age: recent up to 2, moderate 3..4, old 5..6, critical from 7; so 28
\* days is recent and 29 days is moderate.
C12_AgeAndTier ==
    \A e \in SpilloverEntries :
        LET days == sprint.startDate - e.item.startDate
            age == e.item.sprintAge
        IN  /\ age * 14 >= days
            /\ (age - 1) * 14 < days
            /\ TiersOf(e) = {StatedTier(age)}
            /\ (days = 28 => TiersOf(e) = {"recent"})
            /\ (days = 29 => TiersOf(e) = {"moderate"})

C12_Witness ==
    /\ Processed
    /\ \E e1, e2 \in SpilloverEntries :
          /\ sprint.startDate - e1.item.startDate = 28
          /\ "recent" \in TiersOf(e1)
          /\ sprint.startDate - e2.item.startDate = 29
          /\ "moderate" \in TiersOf(e2)

----------------------------------------------------------------------------
(* Bookkeeping of the spillover buckets *)

IssueKeys == { IssueKey(n) : n \in 1..MaxIssues }

\* the places where a key is listed in a tier: bucket, tier, position
TierListings(key) ==
    UNION { UNION { { <<i, g, n>> :
                        n \in { n \in 1..Len(spilloverStats[i].ageGroups[g]) :
                                  spilloverStats[i].ageGroups[g][n][1] = key } } :
                    g \in TierNames } :
            i \in 1..Len(spilloverStats) }

RECURSIVE SumAges(_)
SumAges(items) ==
    IF items = <<>> THEN 0 ELSE Head(items).sprintAge + SumAges(Tail(items))

TierTotal(bucket) ==
    Len(bucket.ageGroups["recent"]) + Len(bucket.ageGroups["moderate"])
      + Len(bucket.ageGroups["old"]) + Len(bucket.ageGroups["critical"])

\* C13: an issue recorded as spillover is in the issues of exactly one person's
\* bucket, once, and in exactly one of the four tier lists, once; in every
\* bucket count = length of issues = total length of the four tier lists.
C13_SpilloverBookkeeping ==
    /\ \A key \in IssueKeys :
          /\ Cardinality({ e \in SpilloverEntries : e.item.key = key }) <= 1
          /\ Cardinality(TierListings(key))
               = Cardinality({ e \in SpilloverEntries : e.item.key = key })
          /\ \A e \in SpilloverEntries : \A l \in TierListings(key) :
                e.item.key = key => l[1] = e.bucket
    /\ \A i \in 1..Len(spilloverStats) :
          /\ spilloverStats[i].count = Len(spilloverStats[i].issues)
          /\ spilloverStats[i].count = TierTotal(spilloverStats[i])
          /\ spilloverStats[i].count >= 1

C13_Witness ==
    /\ Processed
    /\ Len(spilloverStats) = 2
    /\ spilloverStats[1].name = Unknown
    /\ Len(spilloverStats[1].ageGroups["critical"]) = 1
    /\ Len(spilloverStats[2].ageGroups["old"]) = 1

\* C14: in every bucket totalSprintWeeks is twice the sum of the sprintAge of
\* the issues recorded in the bucket.
C14_TotalSprintWeeks ==
    \A i \in 1..Len(spilloverStats) :
        spilloverStats[i].totalSprintWeeks = 2 * SumAges(spilloverStats[i].issues)

C14_Witness ==
    /\ Processed
    /\ \E i \in 1..Len(spilloverStats) :
          /\ Len(spilloverStats[i].issues) = 2
          /\ spilloverStats[i].issues[1].sprintAge = 3
          /\ spilloverStats[i].issues[2].sprintAge = 7
          /\ spilloverStats[i].totalSprintWeeks = 20

----------------------------------------------------------------------------
(* The worklog window *)

\* the seconds a map of logged time holds for a person, 0 when it has none
SecondsOf(tl, p) ==
    IF \E n \in 1..Len(tl) : tl[n].name = p
    THEN tl[CHOOSE n \in 1..Len(tl) : tl[n].name = p].seconds
    ELSE 0

\* the worklogs of an issue whose author is p and whose start is counted
Counted(iss, p, sp) ==
    { n \in 1..Len(iss.worklogs) :
        /\ iss.worklogs[n].author = p
        /\ sp.startDate <= iss.worklogs[n].started
        /\ iss.worklogs[n].started <= sp.endDate }

RECURSIVE SumSeconds(_, _)
SumSeconds(iss, ns) ==
    IF ns = {} THEN 0
    ELSE LET n == CHOOSE n \in ns : TRUE
         IN  iss.worklogs[n].timeSpentSeconds + SumSeconds(iss, ns \ {n})

\* C15: processing an issue adds to a person's logged time of the sprint the
\* seconds of exactly those worklogs of the person with
\* startDate <= started <= endDate: one at startDate or at endDate counts, one
\* at the instant before startDate or after endDate does not; a person gets
\* an entry only through a counted worklog.
C15_WorklogWindow ==
    [][ pc' = "body" =>
          \A p \in Persons :
              /\ SecondsOf(timeLogged', p)
                   = SecondsOf(timeLogged, p)
                       + SumSeconds(ingested', Counted(ingested', p, sprint))
              /\ (\E n \in 1..Len(timeLogged') : timeLogged'[n].name = p)
                   <=> \/ \E n \in 1..Len(timeLogged) : timeLogged[n].name = p
                       \/ Counted(ingested', p, sprint) # {} ]_vars

C15_Witness ==
    /\ Processed
    /\ Len(ingested.worklogs) = 2
    /\ ingested.worklogs[1].author = ingested.worklogs[2].author
    /\ ingested.worklogs[1].started = sprint.endDate
    /\ ingested.worklogs[1].timeSpentSeconds = 1800
    /\ ingested.worklogs[2].started = sprint.endDate + 1
    /\ ingested.worklogs[2].timeSpentSeconds = 3600
    /\ timeLogged = <<[name |-> ingested.worklogs[1].author, seconds |-> 1800]>>

----------------------------------------------------------------------------
(* The leaderboards *)

Min(a, b) == IF a < b THEN a ELSE b

\* the position of the entry of a person in a map, in its order of creation
PlaceIn(data, e) == CHOOSE n \in 1..Len(data) : data[n] = e

\* the order in which an object hands out its entries: the names that are
\* array indices by their number, before all others by their creation
IteratedBefore(data, a, b) ==
    \/ IsArrayIndex(a.name) /\ ~IsArrayIndex(b.name)
    \/ IsArrayIndex(a.name) /\ IsArrayIndex(b.name) /\ ToNumber(a.name) < ToNumber(b.name)
    \/ ~IsArrayIndex(a.name) /\ ~IsArrayIndex(b.name) /\ PlaceIn(data, a) < PlaceIn(data, b)

SameScore(a, b) == a.score.num * b.score.den = b.score.num * a.score.den

\* min(3, persons) entries of the map, in non-increasing order of score, no
\* omitted person higher than a returned one
TopThree(data, top) ==
    /\ Len(top) = Min(3, Len(data))
    /\ \A k \in 1..Len(top) : top[k] \in Range(data)
    /\ \A k, l \in 1..Len(top) :
          k < l =>
            /\ top[k].name # top[l].name
            /\ top[k].score.num * top[l].score.den
                 >= top[l].score.num * top[k].score.den
    /\ \A e \in Range(data) \ Range(top) : \A k \in 1..Len(top) :
          e.score.num * top[k].score.den <= top[k].score.num * e.score.den

\* C16 as stated: getTopPerformers returns min(3, number of persons) entries
\* in non-increasing order of score, no omitted person has a higher score
\* than a returned one, and persons of equal score appear in the insertion
\* order of the map.
C16_TopPerformersAsStated ==
    \A b \in 1..Len(leaderboards) :
        LET data == leaderboards[b].data
            top == leaderboards[b].top
        IN  /\ TopThree(data, top)
            /\ \A k, l \in 1..Len(top) :
                  (k < l /\ SameScore(top[k], top[l]))
                    => PlaceIn(data, top[k]) < PlaceIn(data, top[l])

\* C16, amended: getTopPerformers returns min(3, number of persons) entries
\* in non-increasing order of score, no omitted person has a higher score
\* than a returned one, and persons of equal score appear in the iteration
\* order of the map: the persons whose name is a canonical array index first,
\* by ascending number, then the others in insertion order; a person left out
\* at the cut comes, in that order, after the returned persons of its score.
C16_TopPerformers ==
    \A b \in 1..Len(leaderboards) :
        LET data == leaderboards[b].data
            top == leaderboards[b].top
        IN  /\ TopThree(data, top)
            /\ \A k, l \in 1..Len(top) :
                  (k < l /\ SameScore(top[k], top[l]))
                    => IteratedBefore(data, top[k], top[l])
            /\ \A e \in Range(data) \ Range(top) : \A k \in 1..Len(top) :
                  SameScore(e, top[k]) => IteratedBefore(data, top[k], e)

\* overall hours of four persons, three tied for the lead: "10" joined the
\* map last, after Bob and Alice, and still precedes them; Bob, inserted
\* before Alice, precedes her against the order of the names
C16_Witness ==
    /\ pc = "main"
    /\ Len(leaderboards) = 12
    /\ leaderboards[9].metric = "hours"
    /\ Len(leaderboards[9].data) = 4
    /\ Len(leaderboards[9].top) = 3
    /\ [n \in 1..4 |-> leaderboards[9].data[n].name] = <<"9", "Bob", "Alice", "10">>
    /\ leaderboards[9].data[1].score.num = 1800
    /\ [n \in 1..3 |-> leaderboards[9].top[n].name] = <<"10", "Bob", "Alice">>
    /\ \A k, l \in 1..3 : SameScore(leaderboards[9].top[k], leaderboards[9].top[l])

----------------------------------------------------------------------------
(* The cross-sprint reduction *)

AllNames == Persons \cup {Unknown}

\* the bucket of a person in a map, the empty bucket when the map has none
EntryOf(stats, p, empty) ==
    IF \E n \in 1..Len(stats) : stats[n].name = p
    THEN stats[CHOOSE n \in 1..Len(stats) : stats[n].name = p]
    ELSE empty

\* the sum of a count of a person over the sprints
RECURSIVE SumOf(_, _, _, _, _)
SumOf(summaries, bucket, field, p, empty) ==
    IF summaries = <<>> THEN 0
    ELSE EntryOf(Head(summaries)[bucket], p, empty)[field]
           + SumOf(Tail(summaries), bucket, field, p, empty)

\* the lists of a person, one sprint after the other
RECURSIVE CatOf(_, _, _, _, _)
CatOf(summaries, bucket, field, p, empty) ==
    IF summaries = <<>> THEN <<>>
    ELSE EntryOf(Head(summaries)[bucket], p, empty)[field]
           \o CatOf(Tail(summaries), bucket, field, p, empty)

\* the lists of one tier of a person, one sprint after the other
RECURSIVE CatTier(_, _, _)
CatTier(summaries, g, p) ==
    IF summaries = <<>> THEN <<>>
    ELSE EntryOf(Head(summaries).spilloverStats, p, EmptySpillover).ageGroups[g]
           \o CatTier(Tail(summaries), g, p)

InSomeSprint(summaries, bucket, p) ==
    \E k \in 1..Len(summaries) :
        \E n \in 1..Len(summaries[k][bucket]) : summaries[k][bucket][n].name = p

InTotal(total, p) == \E n \in 1..Len(total) : total[n].name = p

\* t holds, for every person and bucket, the sums and the concatenations
Reduced(t, summaries) ==
    \A p \in AllNames :
        LET c == EntryOf(t.completion, p, EmptyCompletion)
            r == EntryOf(t.reviewer, p, EmptyReviewer)
            sh == EntryOf(t.shipper, p, EmptyShipper)
            sp == EntryOf(t.spillover, p, EmptySpillover)
        IN  /\ InTotal(t.completion, p) <=> InSomeSprint(summaries, "completionStats", p)
            /\ c.started = SumOf(summaries, "completionStats", "started", p, EmptyCompletion)
            /\ c.completed = SumOf(summaries, "completionStats", "completed", p, EmptyCompletion)
            /\ c.completedIssues
                 = CatOf(summaries, "completionStats", "completedIssues", p, EmptyCompletion)
            /\ InTotal(t.reviewer, p) <=> InSomeSprint(summaries, "reviewerStats", p)
            /\ r.reviewed = SumOf(summaries, "reviewerStats", "reviewed", p, EmptyReviewer)
            /\ r.reviewedIssues
                 = CatOf(summaries, "reviewerStats", "reviewedIssues", p, EmptyReviewer)
            /\ InTotal(t.shipper, p) <=> InSomeSprint(summaries, "shipperStats", p)
            /\ sh.shipped = SumOf(summaries, "shipperStats", "shipped", p, EmptyShipper)
            /\ sh.shippedIssues
                 = CatOf(summaries, "shipperStats", "shippedIssues", p, EmptyShipper)
            /\ InTotal(t.spillover, p) <=> InSomeSprint(summaries, "spilloverStats", p)
            /\ sp.count = SumOf(summaries, "spilloverStats", "count", p, EmptySpillover)
            /\ sp.totalSprintWeeks
                 = SumOf(summaries, "spilloverStats", "totalSprintWeeks", p, EmptySpillover)
            /\ sp.issues = CatOf(summaries, "spilloverStats", "issues", p, EmptySpillover)
            /\ \A g \in TierNames : sp.ageGroups[g] = CatTier(summaries, g, p)

\* C17: when the totals are built, for every person and every bucket
\* (completion, reviewer, shipper, spillover) the total count is the sum of
\* the person's counts of the sprints, the total key list is the
\* concatenation of the key lists of the sprints in sprint order, every total
\* tier list is the concatenation of the lists of that tier; the summaries of
\* the sprints are the same after the reduction as before.
C17_CrossSprintReduction ==
    [][ (pc = "sprintLoop" /\ pc' = "main")
          => /\ Reduced(totals', sprintSummaries)
             /\ sprintSummaries' = sprintSummaries
             /\ returned'.value = sprintSummaries ]_vars

C17_Witness ==
    /\ pc = "main"
    /\ Len(sprintSummaries) = 2
    /\ EntryOf(sprintSummaries[1].spilloverStats, "Alice", EmptySpillover).ageGroups["recent"]
         = << <<"K1", 1>> >>
    /\ EntryOf(sprintSummaries[2].spilloverStats, "Alice", EmptySpillover).ageGroups["recent"]
         = << <<"K1", 2>> >>
    /\ EntryOf(totals.spillover, "Alice", EmptySpillover).ageGroups["recent"]
         = << <<"K1", 1>>, <<"K1", 2>> >>
    /\ EntryOf(totals.spillover, "Alice", EmptySpillover).totalSprintWeeks = 6
    /\ EntryOf(totals.completion, "Alice", EmptyCompletion).completedIssues = <<"K2", "K2">>
    /\ EntryOf(totals.completion, "Alice", EmptyCompletion).completed = 2

----------------------------------------------------------------------------
(* The run as a whole *)

\* the sprints of the board that the run was asked for, in the board's order
RECURSIVE Selected(_, _)
Selected(sps, number) ==
    IF sps = <<>> THEN <<>>
    ELSE IF number = "" \/ Includes(Head(sps).name, number)
         THEN <<Head(sps)>> \o Selected(Tail(sps), number)
         ELSE Selected(Tail(sps), number)

\* C18: on a successful run the returned list holds exactly one summary per
\* selected sprint, in the order in which the sprints were supplied.
C18_OneSummaryPerSprint ==
    returned.done =>
        /\ filteredSprints = Selected(boardSprints, sprintNumber)
        /\ Len(returned.value) = Len(filteredSprints)
        /\ \A k \in 1..Len(returned.value) :
              /\ returned.value[k].id = filteredSprints[k].id
              /\ returned.value[k].name = filteredSprints[k].name
              /\ returned.value[k].startDate = filteredSprints[k].startDate
              /\ returned.value[k].endDate = filteredSprints[k].endDate

C18_Witness ==
    /\ pc = "exited"
    /\ exitCode = 0
    /\ sprintNumber = "1"
    /\ Len(boardSprints) = 2
    /\ [k \in 1..Len(returned.value) |-> returned.value[k].name]
         = <<"Sprint 21", "Sprint 1">>
    /\ returned.value[2].completedIssues = 2

FetchFailed == pc = "exited" /\ query > 0

\* C19: when a query of the fetch of a sprint fails, the run ends in failure
\* with that very error handed to main; no summary is returned, no table, no
\* total, no leaderboard is printed and no report is written, also when
\* earlier sprints were fetched and aggregated; no query is ever sent twice.
C19_FailFast ==
    /\ FetchFailed =>
          /\ thrown \in FetchErrors
          /\ mainError = thrown
          /\ exitCode = 1
          /\ returned = [done |-> FALSE, value |-> <<>>]
          /\ printed = <<>>
          /\ totals.completion = <<>> /\ totals.spillover = <<>>
          /\ leaderboards = <<>>
          /\ html = FALSE
          /\ fetchLog[Len(fetchLog)] = [sprint |-> sprint.id, query |-> query]
    /\ \A i, j \in 1..Len(fetchLog) : i # j => fetchLog[i] # fetchLog[j]

C19_Witness ==
    /\ FetchFailed
    /\ sidx = 2
    /\ query = 2
    /\ Len(sprintSummaries) = 1
    /\ sprintSummaries[1].completedIssues = 1
    /\ thrown = "ETIMEDOUT"
    /\ mainError = "ETIMEDOUT"
    /\ Len(fetchLog) = 5

NoBoardMatches == \A n \in 1..Len(boards) : boards[n] # "DEV"

NoSprintMatches ==
    /\ sprintNumber # ""
    /\ \A n \in 1..Len(boardSprints) : ~Includes(boardSprints[n].name, sprintNumber)

\* C20: when no board belongs to the project, or no sprint matches the sprint
\* asked for, the run fails once the lookup has answered, with the not-found
\* error of that lookup (unless the lookup itself failed), and no query for
\* the issues of a sprint is ever sent and no issue ever aggregated; nor are
\* they when the selection of sprints is empty.
C20_NotFound ==
    /\ NoBoardMatches =>
          /\ pc \in {"start", "exited"}
          /\ pc = "exited" => thrown \in {"No board found for project DEV"} \cup FetchErrors
    /\ (~NoBoardMatches /\ NoSprintMatches) =>
          /\ pc \in {"start", "sprints", "exited"}
          /\ pc = "exited" =>
                thrown \in {"No sprints found matching number " \o sprintNumber}
                             \cup FetchErrors
    /\ (NoBoardMatches \/ NoSprintMatches \/ Selected(boardSprints, sprintNumber) = <<>>) =>
          /\ fetchLog = <<>>
          /\ query = 0
          /\ idx = 0
          /\ ingested = NoIssue
          /\ sprintSummaries = <<>>
          /\ pc = "exited" /\ (NoBoardMatches \/ NoSprintMatches) =>
                /\ exitCode = 1
                /\ mainError = thrown
                /\ ~returned.done
                /\ html = FALSE

C20_Witness ==
    /\ pc = "exited"
    /\ sprintNumber = "3"
    /\ boards = <<"OPS", "DEV">>
    /\ boardSprints = <<Sprint1, Sprint2>>
    /\ thrown = "No sprints found matching number 3"
    /\ exitCode = 1
    /\ fetchLog = <<>>

----------------------------------------------------------------------------
(* The completion percentage of the Sprint Summary Table *)

\* C21: the completion percentage of every row of the table, the rows of
\* sprints with no issue and a TOTAL row over no issue included, is a
\* defined number, never the result of completed / 0.
C21_ZeroItemGuard ==
    \A n \in 1..Len(rows) : rows[n].completionPercentage.kind = "number"

----------------------------------------------------------------------------
(* The list of issues without estimate *)

\* the keys of a list, in its order
KeysOf(list) == [n \in 1..Len(list) |-> list[n].key]

\* C22: the missing-estimate list of a sprint is exactly the list the fetch
\* supplied, nothing being added by a check of the estimate of each issue: no
\* key is in it twice, and the list of the fetch result is as it was fetched.
C22_MissingEstimatesAsFetched ==
    /\ KeysOf(missingEstimates) = KeysOf(noEstimateResponse)
    /\ \A i, j \in 1..Len(missingEstimates) :
          i # j => missingEstimates[i].key # missingEstimates[j].key
    /\ \A k \in 1..Len(sprintSummaries) :
          \A i, j \in 1..Len(sprintSummaries[k].missingEstimates) :
              i # j => sprintSummaries[k].missingEstimates[i].key
                         # sprintSummaries[k].missingEstimates[j].key

----------------------------------------------------------------------------
(* A second run of the classifiers on an issue the first run has sorted *)

\* the pair a classifier's result stands for in the per-person lists
PairOf(person, direct) ==
    IF person = "" THEN Attr(Unknown, FALSE) ELSE Attr(person, direct)

\* the pairs a second run obtains from the issue object the first run left
SecondStarter ==
    LET r == FindStarter(SortHistories(issue.histories))
    IN  PairOf(r.starter, r.movedDirectlyToInProgress)

SecondReviewer ==
    LET r == FindReviewer(SortHistories(issue.histories))
    IN  PairOf(r.reviewer, r.movedDirectlyToTesting)

SecondShipper ==
    LET r == FindShipper(SortHistories(issue.histories))
    IN  PairOf(r.shipper, r.movedDirectlyToUATReady)

\* C23: for an issue with a change history, each classifier that applied to
\* it, run a second time on the issue whose events the first run has sorted,
\* yields the (person, certainty) pair the first run recorded.
C23_AttributionIdempotent ==
    (Processed /\ ingested.hasChangelog) =>
        /\ ingested.status = "Done" =>
              /\ StarterOf(ingested.key) = {SecondStarter}
              /\ ReviewerOf(ingested.key) = {SecondReviewer}
        /\ ingested.status \in {"UAT Ready", "Done"} =>
              ShipperOf(ingested.key) = {SecondShipper}
        /\ SortHistories(issue.histories) = issue.histories

\* a Done issue whose two events carry the same timestamp and the same direct
\* transitions by different authors, so that the pair depends on their order
C23_Witness ==
    /\ Processed /\ ingested.hasChangelog /\ ingested.status = "Done"
    /\ Len(ingested.histories) = 2
    /\ ingested.histories[1].created = ingested.histories[2].created
    /\ ingested.histories[1].author # ingested.histories[2].author
    /\ \A k \in 1..2 : \E n \in 1..Len(ingested.histories[k].items) :
           ToInProgress(ingested.histories[k].items[n])
    /\ SecondStarter.person = ingested.histories[1].author

----------------------------------------------------------------------------
(* The start search of the spillover block and the Starter classifier *)

\* C24: on every change history the start search of the spillover block and
\* the Starter classifier select the same event: both name the author of the
\* first move to "In Progress", else of the first move out of "To Do", the
\* start moment is the timestamp of that event, and where one finds no event
\* the other finds none; a recorded spillover stands under the person the
\* Starter classifier names, a recorded completion under the person the
\* start search names.
C24_SpilloverStartIsStarter ==
    (Processed /\ ingested.hasChangelog) =>
        LET h == ingested.histories
            s == SpilloverStart(issue.histories)
            f == FindStarter(issue.histories)
        IN  /\ s.starter = f.starter
            /\ ~StartFound(h) => s.starter = ""
            /\ StartFound(h) =>
                  /\ s.starter = StartEvent(h).author
                  /\ s.startDate = StartEvent(h).created
                  /\ \A r \in SpilloversOf(ingested.key) :
                        r.person = f.starter /\ r.startDate = StartEvent(h).created
                  /\ ingested.status = "Done" =>
                        \E a \in StarterOf(ingested.key) : a.person = s.starter

\* an unfinished issue recorded as spillover whose first event moves it out
\* of "To Do" and whose second event, by another author, moves it to "In Progress"
C24_Witness ==
    /\ Processed /\ ingested.hasChangelog /\ ingested.status # "Done"
    /\ Len(ingested.histories) = 2
    /\ Matches(ingested.histories, ToInProgress) # {}
    /\ Matches(ingested.histories, FromToDo) # {}
    /\ FirstMatch(ingested.histories, FromToDo)[1]
         # FirstMatch(ingested.histories, ToInProgress)[1]
    /\ PosBefore(ingested.histories, FirstMatch(ingested.histories, FromToDo),
                 FirstMatch(ingested.histories, ToInProgress))
    /\ ingested.histories[1].author # ingested.histories[2].author
    /\ \E r \in SpilloversOf(ingested.key) :
          r.person = FindStarter(issue.histories).starter

----------------------------------------------------------------------------
(* The order of the queries of a run *)

\* the place of the n-th query of the run: which sprint of the list, which
\* of the three queries of its fetch
NthSprint(n) == ((n - 1) \div 3) + 1
NthQuery(n) == ((n - 1) % 3) + 1

\* C25: at most one fetch is in flight: the queries of a run are sent sprint
\* by sprint in the order of the list and, within a sprint, one after the
\* other; the first query of a sprint is sent only when the summary of every
\* sprint before it has been pushed; while a query is awaited it is the last
\* one sent and no issue of its sprint has been aggregated; while issues are
\* aggregated no query is awaited and the three queries of the sprint have
\* been sent.
C25_OneFetchInFlight ==
    /\ \A n \in 1..Len(fetchLog) :
          /\ NthSprint(n) <= Len(filteredSprints)
          /\ fetchLog[n].sprint = filteredSprints[NthSprint(n)].id
          /\ fetchLog[n].query = NthQuery(n)
    /\ Len(fetchLog) > 0 => Len(sprintSummaries) >= NthSprint(Len(fetchLog)) - 1
    /\ pc = "query" =>
          /\ query \in 1..3
          /\ Len(fetchLog) > 0
          /\ fetchLog[Len(fetchLog)] = [sprint |-> sprint.id, query |-> query]
          /\ NthSprint(Len(fetchLog)) = sidx
          /\ Len(sprintSummaries) = sidx - 1
          /\ idx = 0 /\ ingested = NoIssue
    /\ pc \in {"loop", "body", "sprintLoop"} =>
          /\ query = 0
          /\ Len(fetchLog) = 3 * sidx
    /\ pc = "sprintLoop" => Len(sprintSummaries) = sidx

\* the second query of the second sprint is awaited, the first sprint having
\* been fetched, aggregated over an issue and summarised
C25_Witness ==
    /\ pc = "query" /\ query = 2 /\ sidx = 2
    /\ Len(fetchLog) = 5
    /\ Len(sprintSummaries) = 1
    /\ sprintSummaries[1].totalIssues > 0

----------------------------------------------------------------------------
(* The summary of a sprint as a function of the sprint and of its issues *)

\* what a sprint has gathered before its first issue
NothingGathered ==
    [completedIssues |-> 0, completionStats |-> <<>>, reviewerStats |-> <<>>,
     shipperStats |-> <<>>, spilloverStats |-> <<>>, timeLogged |-> <<>>,
     missingEstimates |-> <<>>]

\* what one more issue adds to what a sprint has gathered
Gather(g, iss, sp) ==
    [completedIssues |-> IF iss.status = "Done" THEN g.completedIssues + 1
                         ELSE g.completedIssues,
     completionStats |-> StarterBlock(g.completionStats, AfterDone(iss)),
     reviewerStats |-> ReviewerBlock(g.reviewerStats, AfterDone(iss)),
     shipperStats |-> ShipperBlock(g.shipperStats, AfterShipper(iss)),
     spilloverStats |-> SpilloverBlock(g.spilloverStats, AfterSpillover(iss), sp),
     timeLogged |-> WorklogBlock(g.timeLogged, iss, sp),
     missingEstimates |-> EstimateBlock(g.missingEstimates, iss)]

RECURSIVE GatherAll(_, _)
GatherAll(items, sp) ==
    IF items = <<>> THEN NothingGathered
    ELSE Gather(GatherAll(SubSeq(items, 1, Len(items) - 1), sp), items[Len(items)], sp)

\* the summary of a sprint whose fetch delivered items, no other sprint
\* having been aggregated before it
SummaryAlone(sp, items) ==
    LET g == GatherAll(items, sp)
    IN  [id |-> sp.id, name |-> sp.name,
         startDate |-> sp.startDate, endDate |-> sp.endDate,
         totalIssues |-> Len(items),
         completedIssues |-> g.completedIssues,
         timeLogged |-> g.timeLogged,
         completionStats |-> g.completionStats,
         reviewerStats |-> g.reviewerStats,
         shipperStats |-> g.shipperStats,
         spilloverStats |-> g.spilloverStats,
         missingEstimates |-> g.missingEstimates]

\* C26: the summary of a sprint is the one its own dates and its own fetched
\* issues give when it is aggregated alone, whichever sprints were aggregated
\* before it and in whatever order; the loop over the issues of every sprint
\* starts from empty per-person maps.
C26_SummaryOfOwnSprintOnly ==
    /\ Len(sprintSummaries) <= Len(fetchedIssues)
    /\ Len(fetchedIssues) <= Len(filteredSprints)
    /\ \A k \in 1..Len(sprintSummaries) :
          sprintSummaries[k] = SummaryAlone(filteredSprints[k], fetchedIssues[k])
    /\ (pc = "loop" /\ idx = 0) =>
          /\ completionStats = <<>> /\ reviewerStats = <<>> /\ shipperStats = <<>>
          /\ spilloverStats = <<>> /\ timeLogged = <<>> /\ completedIssues = 0

\* the second of two sprints is summarised; each had a finished issue, the
\* first by one person, the second by another
C26_Witness ==
    /\ Len(sprintSummaries) = 2 /\ Len(fetchedIssues) = 2
    /\ Len(fetchedIssues[1]) = 1 /\ Len(fetchedIssues[2]) = 1
    /\ fetchedIssues[1][1].status = "Done" /\ fetchedIssues[2][1].status = "Done"
    /\ fetchedIssues[1][1].histories[1].author
         # fetchedIssues[2][1].histories[1].author
    /\ sprintSummaries[1].completedIssues = 1
    /\ sprintSummaries[2].completedIssues = 1
    /\ sprintSummaries[1] # sprintSummaries[2]

----------------------------------------------------------------------------
(* The counts and the lists of the per-person entries *)

\* the per-person maps of the sprint under way and of the sprints summarised
CompletionMaps ==
    {completionStats} \cup { sprintSummaries[k].completionStats : k \in 1..Len(sprintSummaries) }

ReviewerMaps ==
    {reviewerStats} \cup { sprintSummaries[k].reviewerStats : k \in 1..Len(sprintSummaries) }

ShipperMaps ==
    {shipperStats} \cup { sprintSummaries[k].shipperStats : k \in 1..Len(sprintSummaries) }

\* C27: after any number of issues every entry of a person is consistent:
\* started = completed = length of completedIssues, reviewed = length of
\* reviewedIssues, shipped = length of shippedIssues, and no entry has a
\* count of 0.
C27_BucketConsistency ==
    /\ \A m \in CompletionMaps : \A i \in 1..Len(m) :
          /\ m[i].started = m[i].completed
          /\ m[i].completed = Len(m[i].completedIssues)
          /\ m[i].completed > 0
    /\ \A m \in ReviewerMaps : \A i \in 1..Len(m) :
          /\ m[i].reviewed = Len(m[i].reviewedIssues)
          /\ m[i].reviewed > 0
    /\ \A m \in ShipperMaps : \A i \in 1..Len(m) :
          /\ m[i].shipped = Len(m[i].shippedIssues)
          /\ m[i].shipped > 0

\* one person stands with two issues in the completion and the shipper map,
\* the reviewer map holds one issue under a person and one under "Unknown"
C27_Witness ==
    /\ Processed /\ idx = 2
    /\ Len(completionStats) = 1 /\ completionStats[1].completed = 2
    /\ Len(reviewerStats) = 2 /\ reviewerStats[1].reviewed = 1
    /\ Len(shipperStats) = 1 /\ shipperStats[1].shipped = 2
    /\ completionStats[1].name # Unknown
    /\ \E i \in 1..2 : reviewerStats[i].name = Unknown

----------------------------------------------------------------------------
(* How often a key stands in the lists of a metric *)

\* the keys of the issues the loop has gone through
KeysSoFar == { IssueKey(n) : n \in 1..idx }

\* C28: the keys of a sprint being distinct, no key stands twice, with or
\* without "*", in the lists of all persons of one metric; an issue with a
\* change history stands exactly once in the starter and in the reviewer
\* lists when it is Done and exactly once in the shipper lists when it is
\* Done or UAT Ready.
C28_AtMostOnceAttribution ==
    /\ \A key \in KeysSoFar :
          /\ KeyCount(completionStats, "completedIssues", key) <= 1
          /\ KeyCount(reviewerStats, "reviewedIssues", key) <= 1
          /\ KeyCount(shipperStats, "shippedIssues", key) <= 1
    /\ (Processed /\ ingested.hasChangelog) =>
          /\ ingested.status = "Done" =>
                /\ KeyCount(completionStats, "completedIssues", ingested.key) = 1
                /\ KeyCount(reviewerStats, "reviewedIssues", ingested.key) = 1
          /\ ingested.status \in {"Done", "UAT Ready"} =>
                KeyCount(shipperStats, "shippedIssues", ingested.key) = 1

\* the second Done issue of a sprint, with events that name the same
\* reviewer and the same shipper as the first
C28_Witness ==
    /\ Processed /\ idx = 2 /\ ingested.hasChangelog /\ ingested.status = "Done"
    /\ Len(reviewerStats) = 1 /\ reviewerStats[1].name # Unknown
    /\ Len(reviewerStats[1].reviewedIssues) = 2
    /\ Len(shipperStats) = 1 /\ shipperStats[1].name # Unknown
    /\ Len(shipperStats[1].shippedIssues) = 2
    /\ KeyCount(reviewerStats, "reviewedIssues", IssueKey(1)) = 1
    /\ KeyCount(shipperStats, "shippedIssues", IssueKey(1)) = 1

----------------------------------------------------------------------------
(* The least age of a spillover *)

\* C29: every recorded spillover has sprintAge >= 1, its start being strictly
\* before the sprint start, also when it is the instant before it; hence in
\* every bucket totalSprintWeeks >= 2 * count.
C29_SprintAgeAtLeastOne ==
    /\ \A e \in SpilloverEntries :
          /\ e.item.startDate < sprint.startDate
          /\ e.item.sprintAge >= 1
    /\ \A i \in 1..Len(spilloverStats) :
          spilloverStats[i].totalSprintWeeks >= 2 * spilloverStats[i].count

\* two spillovers whose start is the instant before the sprint start, one
\* under its starter and one under "Unknown", each of age 1
C29_Witness ==
    /\ Processed /\ idx = 2
    /\ Len(spilloverStats) = 2
    /\ spilloverStats[1].name # Unknown /\ spilloverStats[2].name = Unknown
    /\ \A i \in 1..2 :
          /\ Len(spilloverStats[i].issues) = 1
          /\ spilloverStats[i].issues[1].startDate = sprint.startDate - 1
          /\ spilloverStats[i].issues[1].sprintAge = 1
          /\ spilloverStats[i].totalSprintWeeks = 2

----------------------------------------------------------------------------
(* Conservation of the logged time *)

\* the seconds of the in-window worklogs of a person over a list of issues
RECURSIVE SecondsIn(_, _, _)
SecondsIn(items, p, sp) ==
    IF items = <<>> THEN 0
    ELSE SumSeconds(Head(items), Counted(Head(items), p, sp))
         + SecondsIn(Tail(items), p, sp)

\* the sum of the seconds a map of logged time holds
RECURSIVE TotalLogged(_)
TotalLogged(tl) ==
    IF tl = <<>> THEN 0 ELSE Head(tl).seconds + TotalLogged(Tail(tl))

\* the seconds of all worklogs of a list of issues, in the window or not
RECURSIVE AllSeconds(_)
AllSeconds(items) ==
    IF items = <<>> THEN 0
    ELSE SumSeconds(Head(items), 1..Len(Head(items).worklogs)) + AllSeconds(Tail(items))

\* C30: in every sprint the logged time of each person is the sum of the
\* seconds of that person's in-window worklogs over all issues gone through,
\* whatever their status, assignee and change history, and the sum over the
\* persons is the sum of the seconds of all in-window worklogs; worklogs
\* outside the window add to no total.  The summary holds the same map.
C30_WorklogConservation ==
    /\ \A p \in Persons :
          SecondsOf(timeLogged, p) = SecondsIn(fetchedIssues[sidx], p, sprint)
    /\ \A n \in 1..Len(timeLogged) : timeLogged[n].name \in Persons
    /\ \A n, m \in 1..Len(timeLogged) :
          n # m => timeLogged[n].name # timeLogged[m].name
    /\ TotalLogged(timeLogged)
         = SecondsIn(fetchedIssues[sidx], "Alice", sprint)
             + SecondsIn(fetchedIssues[sidx], "Bob", sprint)
    /\ \A k \in 1..Len(sprintSummaries) :
          sprintSummaries[k].timeLogged = timeLogged

\* a Done issue with a change history and an In Progress issue without one
\* and with an assignee have been gone through: worklogs of two authors in
\* the window and one outside it
C30_Witness ==
    /\ Processed /\ idx = 2
    /\ Len(fetchedIssues[1]) = 2
    /\ fetchedIssues[1][1].status = "Done" /\ fetchedIssues[1][1].hasChangelog
    /\ fetchedIssues[1][2].status = "In Progress"
    /\ ~fetchedIssues[1][2].hasChangelog
    /\ fetchedIssues[1][2].assignee = "Alice"
    /\ Len(fetchedIssues[1][1].worklogs) = 2 /\ Len(fetchedIssues[1][2].worklogs) = 2
    /\ fetchedIssues[1][1].worklogs[1].author = "Bob"
    /\ fetchedIssues[1][1].worklogs[1].started = 30
    /\ fetchedIssues[1][2].worklogs[1].author = "Alice"
    /\ fetchedIssues[1][2].worklogs[1].started = 30
    /\ fetchedIssues[1][2].worklogs[2].author = "Bob"
    /\ fetchedIssues[1][2].worklogs[2].started = 45
    /\ TotalLogged(timeLogged) < AllSeconds(fetchedIssues[1])
    /\ SecondsOf(timeLogged, "Alice") > 0 /\ SecondsOf(timeLogged, "Bob") > 0
====
